---- MODULE Spec2Model ----
(***************************************************************************)
(* Orchestration core of the multi-agent supply-chain system: the text     *)
(* stage agents with their offline fallback, the requirement extractor,    *)
(* the sourcing aggregator and the pipelines that thread a shared context  *)
(* through them (src/agent.py, src/dashboard.py, src/orchestrator.py).     *)
(*                                                                         *)
(* Representation.  A Python str is a sequence of one-character strings,   *)
(* so that strip(), substring search, isdigit() and int() are computed.    *)
(* A Python float is an integer number of tenths (5.0 is 50); a price is   *)
(* an integer number of cents.  A dict is a function whose DOMAIN is its   *)
(* key set.  A JSON / Python value is a record tagged by "kind".           *)
(***************************************************************************)
EXTENDS Integers, Sequences, FiniteSets, TLC

(***************************************************************************)
(* Bounds of the model.                                                    *)
(***************************************************************************)
\* longest backend text of a text stage, in characters
MaxTextLen == 3
\* longest forecast text handed to the heuristic extractor, in chunks
MaxChunks == 2
\* longest requirements list in a backend response, in elements
MaxItems == 2

(***************************************************************************)
(* Python str helpers.                                                     *)
(***************************************************************************)
\* str.strip() with no argument removes these from both ends
Whitespace == {" ", "\n", "\t"}

RECURSIVE LStrip(_)
LStrip(s) ==
    IF s # <<>> /\ Head(s) \in Whitespace THEN LStrip(Tail(s)) ELSE s

RECURSIVE RStrip(_)
RStrip(s) ==
    IF s # <<>> /\ s[Len(s)] \in Whitespace
    THEN RStrip(SubSeq(s, 1, Len(s) - 1))
    ELSE s

\* a faulty variant of Strip: only leading whitespace is removed
StripLeftOnly(s) == LStrip(s)

\* s.strip()
Strip(s) == RStrip(LStrip(s))

\* the positions at which t occurs in s as a contiguous substring
Occurrences(t, s) ==
    {i \in 1..(Len(s) - Len(t) + 1) : SubSeq(s, i, i + Len(t) - 1) = t}

\* t in s
Contains(t, s) == Occurrences(t, s) # {}

(***************************************************************************)
(* The fixed offline outputs of the text stages.                           *)
(***************************************************************************)
\* DemandForecastAgent._offline_forecast()
offline_forecast == <<
    "D", "e", "m", "a", "n", "d", " ", "f", "o", "r", "e", "c", "a", "s", "t", ":", " ", "L",
    "M", "7", "4", "1", " ", "1", "2", "0", " ", "i", "n", " ", "E", "u", "r", "o", "p", "e",
    ",", " ", "L", "M", "3", "5", "8", " ", "1", "5", "0", " ", "i", "n", " ", "N", "o", "r",
    "t", "h", " ", "A", "m", "e", "r", "i", "c", "a", ",", " ", "O", "P", "0", "7", " ", "9",
    "0", " ", "i", "n", " ", "A", "s", "i", "a", ".", " ", "R", "e", "c", "o", "m", "m", "e",
    "n", "d", "a", "t", "i", "o", "n", "s", ":", " ", "i", "n", "c", "r", "e", "a", "s", "e",
    " ", "L", "M", "3", "5", "8", " ", "p", "r", "o", "d", "u", "c", "t", "i", "o", "n", ",",
    " ", "m", "a", "i", "n", "t", "a", "i", "n", " ", "L", "M", "7", "4", "1", ",", " ", "m",
    "o", "n", "i", "t", "o", "r", " ", "O", "P", "0", "7", ".", " ", "P", "r", "i", "c", "i",
    "n", "g", ":", " ", "c", "o", "m", "p", "e", "t", "i", "t", "i", "v", "e", " ", "f", "o",
    "r", " ", "L", "M", "3", "5", "8", "." >>

\* LogisticsManagerAgent._offline_logistics()
offline_logistics == <<
    "L", "o", "g", "i", "s", "t", "i", "c", "s", ":", " ", "c", "o", "n", "s", "o", "l", "i",
    "d", "a", "t", "e", " ", "E", "U", " ", "s", "h", "i", "p", "m", "e", "n", "t", "s", " ",
    "t", "o", " ", "B", "e", "r", "l", "i", "n", " ", "b", "y", " ", "r", "o", "a", "d", ",",
    " ", "N", "A", " ", "b", "y", " ", "a", "i", "r", " ", "t", "o", " ", "N", "Y", "C", ",",
    " ", "A", "S", " ", "b", "y", " ", "s", "e", "a", " ", "t", "o", " ", "T", "o", "k", "y",
    "o", ";", " ", "d", "o", "c", "s", " ", "p", "r", "e", "p", "a", "r", "e", "d", "." >>

\* ProductionSchedulerAgent._offline_plan()
offline_plan == <<
    "P", "r", "o", "d", "u", "c", "t", "i", "o", "n", " ", "p", "l", "a", "n", ":", " ", "P",
    "r", "o", "d", "u", "c", "e", " ", "L", "M", "3", "5", "8", " ", "6", "0", "0", ",", " ",
    "L", "M", "7", "4", "1", " ", "3", "0", "0", ",", " ", "O", "P", "0", "7", " ", "1", "0",
    "0", ".", " ", "R", "e", "o", "r", "d", "e", "r", " ", "O", "P", "0", "7", " ", "(", "5",
    "0", "0", ")", ",", " ", "L", "M", "3", "5", "8", " ", "(", "3", "0", "0", ")", "." >>

(***************************************************************************)
(* State.                                                                  *)
(***************************************************************************)
VARIABLES
    groq_client,       \* TRUE iff _make_groq_client() returned a client
    context,           \* the context dict the directly called agents hold;
                       \* in the dashboard, st.session_state['context']
    last,              \* the most recent direct call: operation, inputs, outcome
    components_db,     \* ElectronicComponentAgent.components_db
    risk_assessments,  \* ElectronicComponentAgent.risk_assessments
    pipeline,          \* the entry point of the run in progress, or "none"
    pc,                \* the position of the run in progress
    shared_context,    \* the dict a dashboard pipeline run creates and threads
    locals,            \* the run's local variables that are bound so far
    agent_status,      \* st.session_state['agent_status']
    order              \* the stages the run has executed, in execution order

vars == << groq_client, context, last, components_db, risk_assessments,
           pipeline, pc, shared_context, locals, agent_status, order >>

\* the empty dict
EmptyDict == [k \in {} |-> TRUE]

\* d[key] = value
DictSet(d, key, value) == (key :> value) @@ d

\* self.context.get('offline'), as a truth value
Offline(ctx) == "offline" \in DOMAIN ctx /\ ctx["offline"] = TRUE

\* the context dicts a caller hands to an agent's constructor
CallerContexts ==
    {EmptyDict, [k \in {"offline"} |-> TRUE], [k \in {"offline"} |-> FALSE]}

(***************************************************************************)
(* The generation backend, as seen by one call of                          *)
(* groq_client.chat.completions.create(...): it raises, or it returns a    *)
(* response whose message content is a str, or one whose content is None.  *)
(***************************************************************************)
TextAlphabet == {" ", "\n", "a"}

RECURSIVE SeqsUpTo(_, _)
SeqsUpTo(S, n) ==
    IF n = 0 THEN {<<>>}
    ELSE LET shorter == SeqsUpTo(S, n - 1)
         IN  shorter \cup {Append(s, x) : s \in shorter, x \in S}

BackendTexts == SeqsUpTo(TextAlphabet, MaxTextLen)

Raises == [kind |-> "raise"]
NoContent == [kind |-> "none"]
Returns(t) == [kind |-> "text", content |-> t]

TextBackend == {Raises, NoContent} \cup {Returns(t) : t \in BackendTexts}

(***************************************************************************)
(* Text stage agents (agent.py 7-55, 67-105, 467-501).  The three methods  *)
(* share one shape: build the prompt with json.dumps of the dumped         *)
(* arguments, return the offline constant when there is no client or the   *)
(* offline flag is set, otherwise call the backend inside try/except.      *)
(***************************************************************************)
\* json.dumps(v) raises TypeError on a value it cannot encode (a set, an object)
JsonDumpsRaises(v) == v = "object"

\* argument lists of n values of which at most one is not JSON-serializable
ArgLists(n) ==
    {[i \in 1..n |-> "json"]} \cup
    {[i \in 1..n |-> IF i = bad THEN "object" ELSE "json"] : bad \in 1..n}

\* building the f-string prompt raises iff one json.dumps in it does
PromptRaises(args, dumped) == \E i \in dumped : JsonDumpsRaises(args[i])

\* a faulty variant of StageCall: a backend failure returns the empty text
StageCallNoFallback(client, ctx, args, dumped, b, offline_text) ==
    IF PromptRaises(args, dumped)
    THEN [raised |-> TRUE, result |-> <<>>, backend_calls |-> 0, fallback |-> FALSE]
    ELSE IF ~client \/ Offline(ctx)
    THEN [raised |-> FALSE, result |-> offline_text, backend_calls |-> 0,
          fallback |-> TRUE]
    ELSE IF b.kind = "text"
    THEN [raised |-> FALSE, result |-> Strip(b.content), backend_calls |-> 1,
          fallback |-> FALSE]
    ELSE [raised |-> FALSE, result |-> <<>>, backend_calls |-> 1, fallback |-> TRUE]

\* a faulty variant of StageCall: the backend call is not wrapped in try/except
StageCallUncaught(client, ctx, args, dumped, b, offline_text) ==
    IF PromptRaises(args, dumped)
    THEN [raised |-> TRUE, result |-> <<>>, backend_calls |-> 0, fallback |-> FALSE]
    ELSE IF ~client \/ Offline(ctx)
    THEN [raised |-> FALSE, result |-> offline_text, backend_calls |-> 0,
          fallback |-> TRUE]
    ELSE IF b.kind = "text"
    THEN [raised |-> FALSE, result |-> Strip(b.content), backend_calls |-> 1,
          fallback |-> FALSE]
    ELSE [raised |-> TRUE, result |-> <<>>, backend_calls |-> 1, fallback |-> FALSE]

\* a faulty variant of StageCall: a failed backend call is tried once more
\* before the fallback is returned
StageCallRetries(client, ctx, args, dumped, b, offline_text) ==
    IF PromptRaises(args, dumped)
    THEN [raised |-> TRUE, result |-> <<>>, backend_calls |-> 0, fallback |-> FALSE]
    ELSE IF ~client \/ Offline(ctx)
    THEN [raised |-> FALSE, result |-> offline_text, backend_calls |-> 0,
          fallback |-> TRUE]
    ELSE IF b.kind = "text"
    THEN [raised |-> FALSE, result |-> Strip(b.content), backend_calls |-> 1,
          fallback |-> FALSE]
    ELSE [raised |-> FALSE, result |-> offline_text, backend_calls |-> 2,
          fallback |-> TRUE]

\* one call of a generate_* method; b is what the backend does if it is called
StageCall(client, ctx, args, dumped, b, offline_text) ==
    IF PromptRaises(args, dumped)
    THEN [raised |-> TRUE, result |-> <<>>, backend_calls |-> 0, fallback |-> FALSE]
    ELSE IF ~client \/ Offline(ctx)
    THEN [raised |-> FALSE, result |-> offline_text, backend_calls |-> 0,
          fallback |-> TRUE]
    ELSE IF b.kind = "text"
    THEN [raised |-> FALSE, result |-> Strip(b.content), backend_calls |-> 1,
          fallback |-> FALSE]
    ELSE [raised |-> FALSE, result |-> offline_text, backend_calls |-> 1,
          fallback |-> TRUE]

\* DemandForecastAgent.generate_demand_forecast: all eight arguments are dumped
generate_demand_forecast(client, ctx, args, b) ==
    StageCall(client, ctx, args, 1..8, b, offline_forecast)

\* ProductionSchedulerAgent.generate_production_plan: components and
\* stock_levels are dumped, production_capacity is only formatted
generate_production_plan(client, ctx, args, b) ==
    StageCall(client, ctx, args, 1..2, b, offline_plan)

\* LogisticsManagerAgent.generate_logistics_plan: all three arguments are dumped
generate_logistics_plan(client, ctx, args, b) ==
    StageCall(client, ctx, args, 1..3, b, offline_logistics)

(***************************************************************************)
(* Python and JSON values, tagged by kind: None, int, float (in tenths),   *)
(* str, list and dict.  A dict's field d is a function on its key set.     *)
(***************************************************************************)
PyNone == [kind |-> "null"]
PyInt(n) == [kind |-> "int", n |-> n]
PyFloat(tenths) == [kind |-> "float", n |-> tenths]
PyStr(s) == [kind |-> "str", s |-> s]
PyList(items) == [kind |-> "list", items |-> items]
PyDict(d) == [kind |-> "dict", d |-> d]

\* the dict {"part_number": pn, "quantity": q}, where Absent leaves the key out
Absent == [kind |-> "absent"]
ItemDict(pn, q) ==
    PyDict([k \in (IF pn = Absent THEN {} ELSE {"part_number"})
                  \cup (IF q = Absent THEN {} ELSE {"quantity"})
              |-> IF k = "part_number" THEN pn ELSE q])

\* d.get(key, default) on the key-to-value function of a dict
DictGet(d, key, default) == IF key \in DOMAIN d THEN d[key] ELSE default

AsciiDigits == << "0", "1", "2", "3", "4", "5", "6", "7", "8", "9" >>

\* U+00B2 SUPERSCRIPT TWO, one character: str.isdigit() accepts it and
\* int() rejects it with ValueError
SuperscriptTwo == "^2"

RECURSIVE DecimalDigits(_)
DecimalDigits(n) ==
    IF n < 10 THEN << AsciiDigits[n + 1] >>
    ELSE Append(DecimalDigits(n \div 10), AsciiDigits[(n % 10) + 1])

\* str(v) for a scalar v
Str(v) ==
    CASE v.kind = "null" -> << "N", "o", "n", "e" >>
      [] v.kind = "int" ->
            IF v.n < 0 THEN << "-" >> \o DecimalDigits(0 - v.n)
            ELSE DecimalDigits(v.n)
      [] v.kind = "float" ->
            (IF v.n < 0 THEN << "-" >> ELSE << >>)
            \o DecimalDigits((IF v.n < 0 THEN 0 - v.n ELSE v.n) \div 10)
            \o << "." >>
            \o << AsciiDigits[((IF v.n < 0 THEN 0 - v.n ELSE v.n) % 10) + 1] >>
      [] v.kind = "str" -> v.s

\* s.isdigit()
IsDigit(s) ==
    /\ s # << >>
    /\ \A i \in 1..Len(s) :
          s[i] = SuperscriptTwo \/ \E d \in 1..10 : AsciiDigits[d] = s[i]

RECURSIVE DecimalValue(_)
DecimalValue(s) ==
    IF s = << >> THEN 0
    ELSE 10 * DecimalValue(SubSeq(s, 1, Len(s) - 1))
         + ((CHOOSE d \in 1..10 : AsciiDigits[d] = s[Len(s)]) - 1)

\* int(v) raises ValueError or TypeError
IntRaises(v) ==
    CASE v.kind = "int" -> FALSE
      [] v.kind = "float" -> FALSE
      [] v.kind = "str" ->
            ~(/\ IsDigit(Strip(v.s))
              /\ \A i \in 1..Len(Strip(v.s)) : Strip(v.s)[i] # SuperscriptTwo)
      [] OTHER -> TRUE

\* int(v) where it does not raise (a float is truncated toward zero)
IntOf(v) ==
    CASE v.kind = "int" -> v.n
      [] v.kind = "float" ->
            IF v.n < 0 THEN 0 - ((0 - v.n) \div 10) ELSE v.n \div 10
      [] v.kind = "str" -> DecimalValue(Strip(v.s))

(***************************************************************************)
(* The text of a structured backend response, as the lexical pieces that   *)
(* json.loads and re.search(r'\{.*\}', content, re.DOTALL) tell apart:     *)
(* prose, the braces of the outermost JSON object, the well-formed member  *)
(* text between them (whose own braces are balanced and inside), and a     *)
(* well-formed JSON array.                                                 *)
(***************************************************************************)
Prose == [t |-> "prose"]
LBrace == [t |-> "{"]
RBrace == [t |-> "}"]
Members(d) == [t |-> "members", d |-> d]
ArrayText == [t |-> "array"]

JSONDecodeError == [ok |-> FALSE]

\* json.loads(content): the whole text must be one JSON document
JsonLoads(content) ==
    IF content = << LBrace, RBrace >> THEN [ok |-> TRUE, value |-> PyDict(EmptyDict)]
    ELSE IF Len(content) = 3 /\ content[1] = LBrace /\ content[2].t = "members"
            /\ content[3] = RBrace
    THEN [ok |-> TRUE, value |-> PyDict(content[2].d)]
    ELSE IF content = << ArrayText >> THEN [ok |-> TRUE, value |-> PyList(<< >>)]
    ELSE JSONDecodeError

\* re.search(r'\{.*\}', content, re.DOTALL): greedy, from the first "{" to
\* the last "}" after it; [found |-> FALSE] is the None of no match
RegexBraceSpan(content) ==
    LET opens == {i \in 1..Len(content) : content[i] = LBrace}
        first == CHOOSE i \in opens : \A k \in opens : i <= k
        closes == {j \in 1..Len(content) : content[j] = RBrace /\ j > first}
        final == CHOOSE j \in closes : \A k \in closes : k <= j
    IN  IF opens = {} \/ closes = {} THEN [found |-> FALSE]
        ELSE [found |-> TRUE, span |-> SubSeq(content, first, final)]

(***************************************************************************)
(* Requirement extraction (agent.py 376-423).                              *)
(***************************************************************************)
LM741 == << "L", "M", "7", "4", "1" >>
LM358 == << "L", "M", "3", "5", "8" >>
OP07 == << "O", "P", "0", "7" >>

\* a faulty variant of Vocabulary: the scan runs in the opposite order
VocabularyReversed == << OP07, LM358, LM741 >>

\* the token list of the heuristic scan, line 382
Vocabulary == << LM741, LM358, OP07 >>

\* a faulty variant of HeuristicQuantity: every identifier gets the quantity of LM741
HeuristicQuantityFlat(token) == 100

\* the fixed quantity of a vocabulary token, line 384
HeuristicQuantity(token) ==
    IF token = LM741 THEN 100 ELSE IF token = LM358 THEN 80 ELSE 60

\* forecast_report or ""
OrEmpty(forecast_report) ==
    IF forecast_report.kind = "str" THEN forecast_report.s ELSE << >>

RECURSIVE HeuristicScan(_, _)
\* the loop of lines 382-385 over the remaining tokens
HeuristicScan(tokens, text) ==
    IF tokens = << >> THEN << >>
    ELSE (IF Contains(Head(tokens), text)
          THEN << [part_number |-> Head(tokens),
                   quantity |-> HeuristicQuantity(Head(tokens))] >>
          ELSE << >>)
         \o HeuristicScan(Tail(tokens), text)

\* a faulty variant of NormalizeItem: the quantity is not required to be positive
NormalizeItemKeepsZero(item) ==
    IF item.kind # "dict" THEN [raised |-> TRUE, keep |-> FALSE]
    ELSE LET pn == Strip(Str(DictGet(item.d, "part_number", PyStr(<< >>))))
             digits == IsDigit(Str(DictGet(item.d, "quantity", PyStr(<< "0" >>))))
             q == DictGet(item.d, "quantity", PyInt(0))
         IN  IF digits /\ IntRaises(q) THEN [raised |-> TRUE, keep |-> FALSE]
             ELSE [raised |-> FALSE, keep |-> pn # << >>,
                   rec |-> [part_number |-> pn,
                            quantity |-> IF digits THEN IntOf(q) ELSE 0]]

\* one pass of the loop body, lines 416-419: item.get raises AttributeError
\* on an element that is no dict, int() raises ValueError
NormalizeItem(item) ==
    IF item.kind # "dict" THEN [raised |-> TRUE, keep |-> FALSE]
    ELSE LET pn == Strip(Str(DictGet(item.d, "part_number", PyStr(<< >>))))
             digits == IsDigit(Str(DictGet(item.d, "quantity", PyStr(<< "0" >>))))
             q == DictGet(item.d, "quantity", PyInt(0))
             qty == IF digits THEN IntOf(q) ELSE 0
         IN  IF digits /\ IntRaises(q) THEN [raised |-> TRUE, keep |-> FALSE]
             ELSE [raised |-> FALSE, keep |-> (pn # << >> /\ qty > 0),
                   rec |-> [part_number |-> pn, quantity |-> qty]]

RECURSIVE NormalizeLoop(_)
\* the loop of lines 414-419: an exception in any pass abandons the list
NormalizeLoop(items) ==
    IF items = << >> THEN [raised |-> FALSE, out |-> << >>]
    ELSE LET one == NormalizeItem(Head(items))
             rest == NormalizeLoop(Tail(items))
         IN  IF one.raised \/ rest.raised THEN [raised |-> TRUE, out |-> << >>]
             ELSE [raised |-> FALSE,
                   out |-> (IF one.keep THEN << one.rec >> ELSE << >>) \o rest.out]

\* `for item in requirements` raises TypeError on a value that is not iterable
IterRaises(v) == v.kind \notin {"list", "str", "dict"}

\* what `for item in requirements` iterates over: the elements of a list, the
\* characters of a str, the keys of a dict (each a str; which one is
\* immaterial to the loop, a str has no get)
IterItems(v) ==
    CASE v.kind = "list" -> v.items
      [] v.kind = "str" -> [i \in 1..Len(v.s) |-> PyStr(<< v.s[i] >>)]
      [] v.kind = "dict" -> [i \in 1..Cardinality(DOMAIN v.d) |-> PyStr(<< "k" >>)]

\* a faulty variant of ParseContent: a brace span that does not parse is
\* taken for the empty object
ParseContentEmptyOnFailure(content, default) ==
    LET whole == JsonLoads(content)
        m == RegexBraceSpan(content)
    IN  IF whole.ok THEN [raised |-> FALSE, value |-> whole.value]
        ELSE IF ~m.found THEN [raised |-> FALSE, value |-> default]
        ELSE IF JsonLoads(m.span).ok
        THEN [raised |-> FALSE, value |-> JsonLoads(m.span).value]
        ELSE [raised |-> FALSE, value |-> PyDict(EmptyDict)]

\* a faulty variant of ParseContent: no search for a brace span
ParseContentWholeOnly(content, default) ==
    LET whole == JsonLoads(content)
    IN  IF whole.ok THEN [raised |-> FALSE, value |-> whole.value]
        ELSE [raised |-> FALSE, value |-> default]

\* lines 407-411: the parsed document, or an exception out of the handler
ParseContent(content, default) ==
    LET whole == JsonLoads(content)
        m == RegexBraceSpan(content)
    IN  IF whole.ok THEN [raised |-> FALSE, value |-> whole.value]
        ELSE IF ~m.found THEN [raised |-> FALSE, value |-> default]
        ELSE IF JsonLoads(m.span).ok
        THEN [raised |-> FALSE, value |-> JsonLoads(m.span).value]
        ELSE [raised |-> TRUE]

\* lines 406-420 on a response whose content is a str
ExtractOnline(content) ==
    LET parsed == ParseContent(content,
                      PyDict([k \in {"requirements"} |-> PyList(<< >>)]))
    IN  IF parsed.raised \/ parsed.value.kind # "dict" THEN << >>
        ELSE LET requirements ==
                     DictGet(parsed.value.d, "requirements", PyList(<< >>))
             IN  IF IterRaises(requirements) THEN << >>
                 ELSE IF NormalizeLoop(IterItems(requirements)).raised THEN << >>
                 ELSE NormalizeLoop(IterItems(requirements)).out

\* ComponentSourcingAgent.extract_requirements_from_forecast; b is what the
\* backend does if it is called
extract_requirements_from_forecast(client, forecast_report, b) ==
    IF ~client
    THEN [result |-> HeuristicScan(Vocabulary, OrEmpty(forecast_report)),
          backend_calls |-> 0, mode |-> "heuristic"]
    ELSE [result |-> IF b.kind = "text" THEN ExtractOnline(b.content) ELSE << >>,
          backend_calls |-> 1, mode |-> "online"]

(***************************************************************************)
(* Component sourcing and risk assessment (agent.py 165-306, 425-442).     *)
(***************************************************************************)
\* a label: a str whose text is kept whole, as one element
Label(name) == PyStr(<< name >>)

\* float(v) raises TypeError or ValueError
FloatRaises(v) ==
    CASE v.kind = "int" -> FALSE
      [] v.kind = "float" -> FALSE
      [] v.kind = "str" ->
            ~(/\ IsDigit(Strip(v.s))
              /\ \A i \in 1..Len(Strip(v.s)) : Strip(v.s)[i] # SuperscriptTwo)
      [] OTHER -> TRUE

\* float(v) where it does not raise, in tenths
FloatOf(v) ==
    CASE v.kind = "int" -> 10 * v.n
      [] v.kind = "float" -> v.n
      [] v.kind = "str" -> 10 * DecimalValue(Strip(v.s))

\* the record _search_component returns for every part number, lines 207-215
mock_data ==
    [manufacturer |-> "Texas Instruments",
     description |-> "High-speed operational amplifier",
     stock |-> 1500,
     price |-> 245,
     lead_time |-> 14,
     alternatives |-> << "LM358", "OP07", "AD822" >>]

\* ElectronicComponentAgent._search_component
search_component(part_number) == mock_data

\* the fallback dict of lines 261-266 and the fallback record of 278-284
DefaultRiskFactors == PyList(<< Label("Supply chain risk"), Label("Price volatility") >>)
DefaultMitigations == PyList(<< Label("Diversify suppliers"), Label("Monitor prices") >>)

DefaultRiskDict ==
    [k \in {"risk_factors", "risk_score", "mitigation_strategies",
            "supplier_rating"} |->
        CASE k = "risk_factors" -> DefaultRiskFactors
          [] k = "risk_score" -> PyFloat(50)
          [] k = "mitigation_strategies" -> DefaultMitigations
          [] k = "supplier_rating" -> PyFloat(60)]

DefaultRiskAssessment(part_number) ==
    [component_id |-> part_number,
     risk_factors |-> DefaultRiskFactors,
     risk_score |-> 50,
     mitigation_strategies |-> DefaultMitigations,
     supplier_rating |-> 60]

\* ElectronicComponentAgent._assess_risks; b is what the backend does if it
\* is called.  Without a client, self.groq_client.chat raises AttributeError
\* inside the try; every exception ends in the fallback record.
assess_risks(client, part_number, component_data, b) ==
    IF ~client
    THEN [assessment |-> DefaultRiskAssessment(part_number), backend_calls |-> 0]
    ELSE IF b.kind # "text"
    THEN [assessment |-> DefaultRiskAssessment(part_number), backend_calls |-> 1]
    ELSE LET parsed == ParseContent(b.content, PyDict(DefaultRiskDict))
             result == parsed.value.d
             score == DictGet(result, "risk_score", PyFloat(50))
             rating == DictGet(result, "supplier_rating", PyFloat(50))
         IN  IF parsed.raised \/ parsed.value.kind # "dict"
             THEN [assessment |-> DefaultRiskAssessment(part_number),
                   backend_calls |-> 1]
             ELSE IF FloatRaises(score) \/ FloatRaises(rating)
             THEN [assessment |-> DefaultRiskAssessment(part_number),
                   backend_calls |-> 1]
             ELSE [assessment |->
                       [component_id |-> part_number,
                        risk_factors |-> DictGet(result, "risk_factors", PyList(<< >>)),
                        risk_score |-> FloatOf(score),
                        mitigation_strategies |->
                            DictGet(result, "mitigation_strategies", PyList(<< >>)),
                        supplier_rating |-> FloatOf(rating)],
                   backend_calls |-> 1]

\* a faulty variant of source_component: the assessment is not stored
source_component_unassessed(client, db, ra, part_number, b) ==
    LET component_data == search_component(part_number)
        risk == assess_risks(client, part_number, component_data, b)
        component ==
            [part_number |-> part_number,
             manufacturer |-> component_data.manufacturer,
             description |-> component_data.description,
             stock |-> component_data.stock,
             price |-> component_data.price,
             lead_time |-> component_data.lead_time,
             risk_score |-> risk.assessment.risk_score,
             alternatives |-> component_data.alternatives]
    IN  [component |-> PyDict(component),
         db |-> DictSet(db, part_number, component),
         ra |-> ra,
         backend_calls |-> risk.backend_calls]

\* a faulty variant of source_component: a component that is already in the
\* store is taken for reserved and returned with no stock
source_component_reserving(client, db, ra, part_number, b) ==
    LET component_data == search_component(part_number)
        risk == assess_risks(client, part_number, component_data, b)
        component ==
            [part_number |-> part_number,
             manufacturer |-> component_data.manufacturer,
             description |-> component_data.description,
             stock |-> IF part_number \in DOMAIN db THEN 0
                       ELSE component_data.stock,
             price |-> component_data.price,
             lead_time |-> component_data.lead_time,
             risk_score |-> risk.assessment.risk_score,
             alternatives |-> component_data.alternatives]
    IN  [component |-> PyDict(component),
         db |-> DictSet(db, part_number, component),
         ra |-> DictSet(ra, part_number, risk.assessment),
         backend_calls |-> risk.backend_calls]

\* ElectronicComponentAgent.source_component on the stores db (components_db)
\* and ra (risk_assessments): the component or None, and the stores after
source_component(client, db, ra, part_number, b) ==
    LET component_data == search_component(part_number)
        risk == assess_risks(client, part_number, component_data, b)
        component ==
            [part_number |-> part_number,
             manufacturer |-> component_data.manufacturer,
             description |-> component_data.description,
             stock |-> component_data.stock,
             price |-> component_data.price,
             lead_time |-> component_data.lead_time,
             risk_score |-> risk.assessment.risk_score,
             alternatives |-> component_data.alternatives]
    IN  [component |-> PyDict(component),
         db |-> DictSet(db, part_number, component),
         ra |-> DictSet(ra, part_number, risk.assessment),
         backend_calls |-> risk.backend_calls]

\* ElectronicComponentAgent.get_risk_report
get_risk_report(db, ra, part_number) ==
    IF part_number \notin DOMAIN ra THEN PyNone
    ELSE LET assessment == ra[part_number]
             has == part_number \in DOMAIN db
         IN  PyDict(
                 [part_number |-> part_number,
                  risk_score |-> assessment.risk_score,
                  risk_factors |-> assessment.risk_factors,
                  mitigation_strategies |-> assessment.mitigation_strategies,
                  supplier_rating |-> assessment.supplier_rating,
                  component_info |->
                      IF has
                      THEN PyDict([manufacturer |-> db[part_number].manufacturer,
                                   stock |-> db[part_number].stock,
                                   price |-> db[part_number].price,
                                   lead_time |-> db[part_number].lead_time])
                      ELSE PyDict(EmptyDict)])

\* `not part_number`: None and the empty str are falsy
Falsy(v) == v.kind = "null" \/ (v.kind = "str" /\ v.s = << >>)

\* a faulty variant of SourceStep: an identifier that has an entry keeps it
SourceStepKeepFirst(client, req, b, acc) ==
    IF req.kind # "dict" THEN [acc EXCEPT !.raised = TRUE]
    ELSE LET part_number == DictGet(req.d, "part_number", PyNone)
             q == DictGet(req.d, "quantity", PyInt(0))
         IN  IF IntRaises(q) THEN [acc EXCEPT !.raised = TRUE]
             ELSE IF Falsy(part_number) \/ IntOf(q) <= 0 THEN acc
             ELSE IF part_number.s \in DOMAIN acc.results THEN acc
             ELSE CHOOSE after \in
                    { [raised |-> FALSE,
                       results |->
                           DictSet(acc.results, part_number.s,
                               [requested_quantity |-> IntOf(q),
                                component |-> s.component,
                                risk_report |->
                                    get_risk_report(s.db, s.ra, part_number.s)]),
                       db |-> s.db,
                       ra |-> s.ra,
                       backend_calls |->
                           acc.backend_calls + s.backend_calls] :
                      s \in {source_component(client, acc.db, acc.ra,
                                              part_number.s, b)} } : TRUE

\* a faulty variant of SourceStep: a quantity of zero is not skipped
SourceStepKeepsZero(client, req, b, acc) ==
    IF req.kind # "dict" THEN [acc EXCEPT !.raised = TRUE]
    ELSE LET part_number == DictGet(req.d, "part_number", PyNone)
             q == DictGet(req.d, "quantity", PyInt(0))
         IN  IF IntRaises(q) THEN [acc EXCEPT !.raised = TRUE]
             ELSE IF Falsy(part_number) THEN acc
             ELSE CHOOSE after \in
                    { [raised |-> FALSE,
                       results |->
                           DictSet(acc.results, part_number.s,
                               [requested_quantity |-> IntOf(q),
                                component |-> s.component,
                                risk_report |->
                                    get_risk_report(s.db, s.ra, part_number.s)]),
                       db |-> s.db,
                       ra |-> s.ra,
                       backend_calls |->
                           acc.backend_calls + s.backend_calls] :
                      s \in {source_component(client, acc.db, acc.ra,
                                              part_number.s, b)} } : TRUE

\* a faulty variant of SourceStep: the risk report is read from the stores
\* as they were before the component was sourced
SourceStepStaleReport(client, req, b, acc) ==
    IF req.kind # "dict" THEN [acc EXCEPT !.raised = TRUE]
    ELSE LET part_number == DictGet(req.d, "part_number", PyNone)
             q == DictGet(req.d, "quantity", PyInt(0))
         IN  IF IntRaises(q) THEN [acc EXCEPT !.raised = TRUE]
             ELSE IF Falsy(part_number) \/ IntOf(q) <= 0 THEN acc
             ELSE CHOOSE after \in
                    { [raised |-> FALSE,
                       results |->
                           DictSet(acc.results, part_number.s,
                               [requested_quantity |-> IntOf(q),
                                component |-> s.component,
                                risk_report |->
                                    get_risk_report(acc.db, acc.ra,
                                                    part_number.s)]),
                       db |-> s.db,
                       ra |-> s.ra,
                       backend_calls |->
                           acc.backend_calls + s.backend_calls] :
                      s \in {source_component(client, acc.db, acc.ra,
                                              part_number.s, b)} } : TRUE

\* one pass through the body of the loop of lines 428-439, for the requirement
\* req with the backend doing b if it is called; acc carries results, the
\* stores and the number of backend calls.  req.get raises AttributeError on
\* an element that is no dict and int() raises on a quantity it cannot
\* convert; source_requirements catches neither.
SourceStep(client, req, b, acc) ==
    IF req.kind # "dict" THEN [acc EXCEPT !.raised = TRUE]
    ELSE LET part_number == DictGet(req.d, "part_number", PyNone)
             q == DictGet(req.d, "quantity", PyInt(0))
         IN  IF IntRaises(q) THEN [acc EXCEPT !.raised = TRUE]
             ELSE IF Falsy(part_number) \/ IntOf(q) <= 0 THEN acc
             ELSE \* s is the outcome of the one call of source_component
                  CHOOSE after \in
                    { LET risk == get_risk_report(s.db, s.ra, part_number.s)
                          entry == [requested_quantity |-> IntOf(q),
                                    component |-> s.component,
                                    risk_report |-> risk]
                      IN  [raised |-> FALSE,
                           results |-> DictSet(acc.results, part_number.s,
                                               entry),
                           db |-> s.db,
                           ra |-> s.ra,
                           backend_calls |->
                               acc.backend_calls + s.backend_calls] :
                      s \in {source_component(client, acc.db, acc.ra,
                                              part_number.s, b)} } : TRUE

RECURSIVE SourceLoop(_, _, _, _, _)
\* the loop of lines 428-439 from requirement i on: the state after
\* requirement i is computed, then the loop goes on from it, unless the
\* body raised
SourceLoop(client, requirements, bs, i, acc) ==
    IF i > Len(requirements) \/ acc.raised THEN acc
    ELSE CHOOSE final \in
             { SourceLoop(client, requirements, bs, i + 1, after) :
                 after \in {SourceStep(client, requirements[i], bs[i], acc)} } :
             TRUE

\* a faulty variant of source_requirements: the results are merged into
\* the sourcing_results the context already holds
source_requirements_merging(client, ctx, db, ra, requirements, bs) ==
    CHOOSE returned \in
        { [raised |-> done.raised,
           results |-> done.results,
           db |-> done.db,
           ra |-> done.ra,
           backend_calls |-> done.backend_calls,
           context |-> IF done.raised THEN ctx
                       ELSE DictSet(ctx, "sourcing_results",
                                done.results @@
                                DictGet(ctx, "sourcing_results", EmptyDict))] :
          done \in {SourceLoop(client, requirements, bs, 1,
                        [raised |-> FALSE, results |-> EmptyDict, db |-> db,
                         ra |-> ra, backend_calls |-> 0])} } : TRUE

\* a faulty variant of source_requirements: the context is left holding the
\* results alone
source_requirements_replacing(client, ctx, db, ra, requirements, bs) ==
    CHOOSE returned \in
        { [raised |-> done.raised,
           results |-> done.results,
           db |-> done.db,
           ra |-> done.ra,
           backend_calls |-> done.backend_calls,
           context |-> IF done.raised THEN ctx
                       ELSE DictSet(EmptyDict, "sourcing_results",
                                    done.results)] :
          done \in {SourceLoop(client, requirements, bs, 1,
                        [raised |-> FALSE, results |-> EmptyDict, db |-> db,
                         ra |-> ra, backend_calls |-> 0])} } : TRUE

\* ComponentSourcingAgent.source_requirements over the context ctx and the
\* stores of its component agent: the results, the stores and the context
\* after; when it raises, the context is as before
source_requirements(client, ctx, db, ra, requirements, bs) ==
    CHOOSE returned \in
        { [raised |-> done.raised,
           results |-> done.results,
           db |-> done.db,
           ra |-> done.ra,
           backend_calls |-> done.backend_calls,
           context |-> IF done.raised THEN ctx
                       ELSE DictSet(ctx, "sourcing_results", done.results)] :
          done \in {SourceLoop(client, requirements, bs, 1,
                        [raised |-> FALSE, results |-> EmptyDict, db |-> db,
                         ra |-> ra, backend_calls |-> 0])} } : TRUE

\* the dict {"part_number": ..., "quantity": ...} of a requirement record
RequirementDict(r) == ItemDict(PyStr(r.part_number), PyInt(r.quantity))

\* the list of dicts extract_requirements_from_forecast returns
RequirementDicts(records) == [i \in 1..Len(records) |-> RequirementDict(records[i])]

(***************************************************************************)
(* Direct calls of the text stage agents by a caller that holds agents     *)
(* constructed over `context`.  A call leaves every agent field and the    *)
(* context as they are; `last` records the call for the properties, until  *)
(* the caller has consumed the result and is ready for the next call.      *)
(***************************************************************************)
NoCall == [op |-> "none"]

\* the caller is done with the result of the last call
Consume ==
    /\ last # NoCall
    /\ last' = NoCall
    /\ UNCHANGED << groq_client, context, components_db, risk_assessments,
                    pipeline, pc, shared_context, locals, agent_status, order >>

TextCallRecord(op, args, b, r) ==
    [op |-> op, args |-> args, backend |-> b, raised |-> r.raised,
     result |-> r.result, backend_calls |-> r.backend_calls,
     fallback |-> r.fallback]

CallForecast ==
    /\ last = NoCall
    /\ \E args \in ArgLists(8), b \in TextBackend :
          /\ last' = TextCallRecord("generate_demand_forecast", args, b,
                         generate_demand_forecast(groq_client, context, args, b))
          /\ UNCHANGED << groq_client, context, components_db,
                          risk_assessments, pipeline, pc, shared_context,
                          locals, agent_status, order >>

CallProductionPlan ==
    /\ last = NoCall
    /\ \E args \in ArgLists(3), b \in TextBackend :
          /\ last' = TextCallRecord("generate_production_plan", args, b,
                         generate_production_plan(groq_client, context, args, b))
          /\ UNCHANGED << groq_client, context, components_db,
                          risk_assessments, pipeline, pc, shared_context,
                          locals, agent_status, order >>

CallLogisticsPlan ==
    /\ last = NoCall
    /\ \E args \in ArgLists(3), b \in TextBackend :
          /\ last' = TextCallRecord("generate_logistics_plan", args, b,
                         generate_logistics_plan(groq_client, context, args, b))
          /\ UNCHANGED << groq_client, context, components_db,
                          risk_assessments, pipeline, pc, shared_context,
                          locals, agent_status, order >>

(***************************************************************************)
(* Inputs of the direct calls of extract_requirements_from_forecast.       *)
(***************************************************************************)
\* pieces a forecast text is put together from: the identifiers, a piece of
\* one that completes to LM741 with the next piece, a number, a blank
ForecastChunks ==
    { LM741, LM358, OP07, << "L", "M", "7", "4" >>, << "1" >>,
      << "1", "2", "0" >>, << " " >> }

RECURSIVE Flatten(_)
Flatten(chunks) ==
    IF chunks = << >> THEN << >> ELSE Head(chunks) \o Flatten(Tail(chunks))

\* the forecast_report arguments: None, or a str of up to MaxChunks pieces
ForecastReports ==
    {PyNone} \cup {PyStr(Flatten(c)) : c \in SeqsUpTo(ForecastChunks, MaxChunks)}

\* the one report that accompanies the responses that are varied
SampleReport == PyStr(LM741 \o << " " >> \o OP07)

\* identifiers a response may give: well-formed, padded, empty, blank,
\* null, left out
SamplePartNumbers ==
    { PyStr(LM741), PyStr(<< " " >> \o OP07 \o << " " >>), PyStr(<< >>),
      PyStr(<< " " >>), PyNone, Absent }

\* quantities a response may give: positive, zero and negative integers, a
\* float, digit strings, a padded digit string, a word, a superscript digit,
\* null, left out
SampleQuantities ==
    { PyInt(80), PyInt(0), PyInt(-5), PyFloat(55), PyStr(<< "6", "0" >>),
      PyStr(<< "0" >>), PyStr(<< " ", "7" >>), PyStr(<< "a" >>),
      PyStr(<< SuperscriptTwo >>), PyNone, Absent }

\* the elements of a requirements list: each field varied against a
\* well-formed other field, and elements that are no objects
SampleItems ==
    {ItemDict(pn, PyInt(80)) : pn \in SamplePartNumbers}
    \cup {ItemDict(PyStr(LM358), q) : q \in SampleQuantities}
    \cup {PyStr(LM741), PyNone}

\* the values of the "requirements" member
SampleRequirements ==
    {PyList(items) : items \in SeqsUpTo(SampleItems, MaxItems)}
    \cup {PyNone, PyStr(LM741), PyDict(EmptyDict)}

\* the member sets of the response object
SampleMembers ==
    {[k \in {"requirements"} |-> r] : r \in SampleRequirements}
    \cup {[k \in {"result"} |-> PyNone]}

\* response texts: the bare object, the object wrapped in prose, two objects
\* in one text, the empty object, an array, prose without an object, nothing
ExtractContents ==
    {<< LBrace, Members(d), RBrace >> : d \in SampleMembers}
    \cup {<< Prose, LBrace, Members(d), RBrace, Prose >> : d \in SampleMembers}
    \cup {<< LBrace, Members(d), RBrace, Prose, LBrace, RBrace >> :
              d \in SampleMembers}
    \cup {<< LBrace, RBrace >>, << ArrayText >>, << Prose >>, << >>}

ExtractBackend == {Raises, NoContent} \cup {Returns(c) : c \in ExtractContents}

\* the text of the bare object {"requirements": items}
RequirementsResponse(items) ==
    Returns(<< LBrace, Members([k \in {"requirements"} |-> PyList(items)]),
               RBrace >>)

\* the pairs (report, backend behaviour) tried: every report against a
\* failing backend and one response, every response against one report
ExtractInputs ==
    (ForecastReports \X
        {Raises, RequirementsResponse(<< ItemDict(PyStr(OP07), PyInt(60)) >>)})
    \cup ({SampleReport} \X ExtractBackend)

CallExtract ==
    /\ last = NoCall
    /\ \E inp \in ExtractInputs :
          LET r == extract_requirements_from_forecast(groq_client, inp[1], inp[2])
          IN  /\ last' = [op |-> "extract_requirements_from_forecast",
                          forecast_report |-> inp[1], backend |-> inp[2],
                          raised |-> FALSE, result |-> r.result,
                          backend_calls |-> r.backend_calls, mode |-> r.mode]
              /\ UNCHANGED << groq_client, context, components_db,
                              risk_assessments, pipeline, pc, shared_context,
                              locals, agent_status, order >>

(***************************************************************************)
(* ElectronicComponentAgent.optimize_sourcing (agent.py 308-368).          *)
(***************************************************************************)
\* the dict returned at lines 312-317, 354-359 and 363-368
DefaultOptimization ==
    [k \in {"recommended_suppliers", "cost_optimization", "risk_mitigation",
            "timeline"} |->
        CASE k = "recommended_suppliers" ->
                 PyList(<< Label("Digi-Key"), Label("Mouser"), Label("Arrow") >>)
          [] k = "cost_optimization" ->
                 PyList(<< Label("Bulk purchasing"), Label("Volume discounts") >>)
          [] k = "risk_mitigation" ->
                 PyList(<< Label("Multiple suppliers"), Label("Safety stock") >>)
          [] k = "timeline" -> Label("4-6 weeks")]

\* optimize_sourcing; b is what the backend does if it is called.  The parsed
\* document is returned as it is, whatever its type and fields.
optimize_sourcing(client, b) ==
    IF ~client
    THEN [result |-> PyDict(DefaultOptimization), backend_calls |-> 0]
    ELSE IF b.kind # "text"
    THEN [result |-> PyDict(DefaultOptimization), backend_calls |-> 1]
    ELSE LET parsed == ParseContent(b.content, PyDict(DefaultOptimization))
         IN  [result |-> IF parsed.raised THEN PyDict(DefaultOptimization)
                         ELSE parsed.value,
              backend_calls |-> 1]

(***************************************************************************)
(* Inputs of the direct calls on an ElectronicComponentAgent.              *)
(***************************************************************************)
INVALID123 == << "I", "N", "V", "A", "L", "I", "D", "1", "2", "3" >>

\* part numbers a caller sources: a vocabulary identifier, the invalid
\* identifier of test_agent.py 225 and demo_agent.py, the empty identifier
SourcedPartNumbers == {LM741, INVALID123, << >>}

\* the member text of the object a risk response carries: all four fields;
\* two fields; a score that is no number; factors that are no list; a score
\* and a rating outside 0-10
RiskMembers ==
    { [k \in {"risk_factors", "risk_score", "mitigation_strategies",
              "supplier_rating"} |->
          CASE k = "risk_factors" -> PyList(<< Label("Obsolescence") >>)
            [] k = "risk_score" -> PyInt(7)
            [] k = "mitigation_strategies" -> PyList(<< Label("Second source") >>)
            [] k = "supplier_rating" -> PyFloat(85)],
      [k \in {"risk_factors", "risk_score"} |->
          IF k = "risk_factors" THEN PyList(<< Label("Obsolescence") >>)
          ELSE PyFloat(25)],
      [k \in {"risk_factors", "risk_score"} |->
          IF k = "risk_factors" THEN PyList(<< Label("Obsolescence") >>)
          ELSE PyStr(<< "a" >>)],
      [k \in {"risk_factors", "risk_score"} |->
          IF k = "risk_factors" THEN Label("Obsolescence") ELSE PyInt(7)],
      [k \in {"risk_score", "supplier_rating"} |->
          IF k = "risk_score" THEN PyInt(12) ELSE PyInt(-1)] }

\* the texts of a structured response: the bare object, the object in prose,
\* the object in prose that has braces of its own before or after it, text
\* with a brace span that is no JSON, a truncated object, prose only, the
\* empty object, an array, nothing
StructuredContents(members) ==
    UNION { { << LBrace, Members(d), RBrace >>,
              << Prose, LBrace, Members(d), RBrace, Prose >>,
              << Prose, LBrace, Members(d), RBrace >>,
              << LBrace, Prose, RBrace, Prose, LBrace, Members(d), RBrace >>,
              << Prose, LBrace, Members(d), RBrace, Prose, RBrace >>,
              << LBrace, Members(d) >> } : d \in members }
    \cup { << LBrace, Prose, RBrace >>, << Prose >>, << LBrace, RBrace >>,
           << ArrayText >>, << >> }

StructuredBackend(members) ==
    {Raises, NoContent} \cup {Returns(c) : c \in StructuredContents(members)}

\* the responses to the risk prompt and to the optimization prompt
ComponentRiskBackend == StructuredBackend(RiskMembers)

OptimizationMembers ==
    { DefaultOptimization,
      [k \in {"timeline"} |-> Label("2 weeks")] }

OptimizationBackend == StructuredBackend(OptimizationMembers)

\* agent._assess_risks(part_number, component_data)
CallAssessRisks ==
    /\ last = NoCall
    /\ \E pn \in SourcedPartNumbers, b \in ComponentRiskBackend :
         \E r \in {assess_risks(groq_client, pn, search_component(pn), b)} :
            last' = [op |-> "assess_risks", part_number |-> pn,
                     backend |-> b, raised |-> FALSE,
                     result |-> r.assessment,
                     backend_calls |-> r.backend_calls]
    /\ UNCHANGED << groq_client, context, components_db, risk_assessments,
                    pipeline, pc, shared_context, locals, agent_status, order >>

\* agent.optimize_sourcing(components)
CallOptimizeSourcing ==
    /\ last = NoCall
    /\ \E b \in OptimizationBackend :
         \E r \in {optimize_sourcing(groq_client, b)} :
            last' = [op |-> "optimize_sourcing", backend |-> b,
                     raised |-> FALSE, result |-> r.result,
                     backend_calls |-> r.backend_calls]
    /\ UNCHANGED << groq_client, context, components_db, risk_assessments,
                    pipeline, pc, shared_context, locals, agent_status, order >>

\* st.session_state['agent_status'] as initialised at dashboard.py 46-51
NotRunStatus ==
    [a \in {"demand_forecast", "production_schedule", "component_sourcing",
            "logistics"} |-> "Not Run"]

\* the state after the agents are constructed over a caller's context:
\* the environment decides whether a client exists
InitAgents ==
    /\ groq_client \in BOOLEAN
    /\ context \in CallerContexts
    /\ last = NoCall
    /\ components_db = EmptyDict
    /\ risk_assessments = EmptyDict
    /\ pipeline = "none"
    /\ pc = "idle"
    /\ shared_context = EmptyDict
    /\ locals = EmptyDict
    /\ agent_status = NotRunStatus
    /\ order = <<>>

Next ==
    \/ CallForecast
    \/ CallProductionPlan
    \/ CallLogisticsPlan
    \/ CallExtract
    \/ CallAssessRisks
    \/ CallOptimizeSourcing
    \/ Consume

\* the agents under direct calls by a caller
Spec == InitAgents /\ [][Next]_vars

(***************************************************************************)
(* Pipeline runs: the dashboard's "Complete Pipeline" (dashboard.py        *)
(* 771-934), its "Full Orchestration" (216-354) and orchestrator.main      *)
(* (orchestrator.py 97-104).  One action is one step of the script; the    *)
(* arguments the scripts pass to the text stages are JSON literals.        *)
(***************************************************************************)
\* what the backend does in a pipeline step, if it is called
PipelineTextBackend == {Raises, Returns(<< " ", "a" >>)}

RiskResponse(score, rating) ==
    Returns(<< Prose, LBrace,
               Members([k \in {"risk_factors", "risk_score", "supplier_rating"} |->
                   CASE k = "risk_factors" -> PyList(<< Label("Obsolescence") >>)
                     [] k = "risk_score" -> score
                     [] k = "supplier_rating" -> rating]),
               RBrace >>)

PipelineRiskBackend == {Raises, RiskResponse(PyInt(7), PyFloat(85))}

PipelineExtractBackend ==
    { Raises,
      RequirementsResponse(<< ItemDict(PyStr(OP07), PyInt(60)) >>),
      RequirementsResponse(<< ItemDict(PyStr(LM741), PyInt(0)),
                              ItemDict(PyStr(LM358), PyStr(<< "4", "0" >>)),
                              ItemDict(PyStr(LM358), PyInt(80)) >>) }

\* the literal arguments of a step: every one of them serializable
Literals(n) == [i \in 1..n |-> "json"]

\* a faulty variant of After: the dashboard schedules before it sources
AfterSwapped(p, stage) ==
    CASE stage = "forecast" -> "scheduling"
      [] stage = "scheduling" -> "sourcing"
      [] stage = "sourcing" -> "logistics"
      [] stage = "logistics" -> IF p = "complete" THEN "summary" ELSE "done"

\* the step that follows a stage in the text of each script
After(p, stage) ==
    IF p = "main"
    THEN CASE stage = "forecast" -> "scheduling"
           [] stage = "scheduling" -> "sourcing"
           [] stage = "sourcing" -> "logistics"
           [] stage = "logistics" -> "done"
    ELSE CASE stage = "forecast" -> "sourcing"
           [] stage = "sourcing" -> "scheduling"
           [] stage = "scheduling" -> "logistics"
           [] stage = "logistics" -> "summary"

\* no run is in progress
Resting == pc \in {"idle", "done", "halted"}

\* a button is pressed or the script is started: the run begins with a new
\* empty shared_context (dashboard.py 223, 776)
Start(p) ==
    /\ Resting
    /\ pipeline' = p
    /\ pc' = "forecast"
    /\ shared_context' = EmptyDict
    /\ locals' = EmptyDict
    /\ order' = << >>
    /\ UNCHANGED << groq_client, context, last, components_db,
                    risk_assessments, agent_status >>

StartCompletePipeline == Start("complete")
StartRunAll == Start("run_all")
StartMain == Start("main")

\* Complete Pipeline, step 1 (dashboard.py 779-816)
CompleteForecast ==
    /\ pipeline = "complete" /\ pc = "forecast"
    /\ \E b \in PipelineTextBackend :
          LET r == generate_demand_forecast(groq_client, shared_context,
                                            Literals(8), b)
          IN  /\ ~r.raised
              /\ shared_context' = DictSet(shared_context, "demand_forecast",
                                           r.result)
              /\ locals' = DictSet(locals, "forecast_report", r.result)
    /\ order' = Append(order, "forecast")
    /\ pc' = After(pipeline, "forecast")
    /\ UNCHANGED << groq_client, context, last, components_db,
                    risk_assessments, pipeline, agent_status >>

\* Complete Pipeline, step 2 (dashboard.py 819-852): a new
\* ComponentSourcingAgent over shared_context, whose component agent starts
\* with empty stores; source_requirements writes shared_context itself
CompleteSourcing ==
    /\ pipeline = "complete" /\ pc = "sourcing"
    /\ \E b \in PipelineExtractBackend :
          \E x \in {extract_requirements_from_forecast(
                        groq_client, PyStr(locals["forecast_report"]), b)} :
            \E requirements \in {RequirementDicts(x.result)} :
              \E bs \in [1..Len(requirements) -> PipelineRiskBackend] :
                \E s \in {source_requirements(groq_client, shared_context,
                               EmptyDict, EmptyDict, requirements, bs)} :
                    /\ ~s.raised
                    /\ shared_context' = s.context
                    /\ locals' = DictSet(DictSet(locals, "requirements",
                                                 requirements),
                                         "sourcing_results", s.results)
    /\ order' = Append(order, "sourcing")
    /\ pc' = After(pipeline, "sourcing")
    /\ UNCHANGED << groq_client, context, last, components_db,
                    risk_assessments, pipeline, agent_status >>

\* data.get("component") or {}
ComponentOrEmpty(data) ==
    IF data.component.kind = "dict" THEN data.component.d ELSE EmptyDict

\* the scheduler's components list, dashboard.py 858-865, by part number
SchedulerComponents(sourcing_results) ==
    [pn \in DOMAIN sourcing_results |->
        [part_number |-> pn,
         lead_time |-> DictGet(ComponentOrEmpty(sourcing_results[pn]),
                               "lead_time", 14),
         available_qty |-> DictGet(ComponentOrEmpty(sourcing_results[pn]),
                                   "stock", 0)]]

\* the scheduler's stock_levels, dashboard.py 866
SchedulerStockLevels(sourcing_results) ==
    [pn \in DOMAIN sourcing_results |->
        DictGet(ComponentOrEmpty(sourcing_results[pn]), "stock", 0)]

\* Complete Pipeline, step 3 (dashboard.py 855-881): the plan is stored
\* under the key "production_plan"
CompleteScheduling ==
    /\ pipeline = "complete" /\ pc = "scheduling"
    /\ \E b \in PipelineTextBackend :
          LET components == SchedulerComponents(locals["sourcing_results"])
              stock_levels == SchedulerStockLevels(locals["sourcing_results"])
              r == generate_production_plan(groq_client, shared_context,
                                            Literals(3), b)
          IN  /\ ~r.raised
              /\ shared_context' = DictSet(shared_context, "production_plan",
                                           r.result)
              /\ locals' = DictSet(DictSet(DictSet(locals,
                               "components", components),
                               "stock_levels", stock_levels),
                               "production_plan", r.result)
    /\ order' = Append(order, "scheduling")
    /\ pc' = After(pipeline, "scheduling")
    /\ UNCHANGED << groq_client, context, last, components_db,
                    risk_assessments, pipeline, agent_status >>

\* Complete Pipeline, step 4 (dashboard.py 884-910)
CompleteLogistics ==
    /\ pipeline = "complete" /\ pc = "logistics"
    /\ \E b \in PipelineTextBackend :
          LET r == generate_logistics_plan(groq_client, shared_context,
                                           Literals(3), b)
          IN  /\ ~r.raised
              /\ shared_context' = DictSet(shared_context, "logistics_plan",
                                           r.result)
              /\ locals' = DictSet(locals, "logistics_plan", r.result)
    /\ order' = Append(order, "logistics")
    /\ pc' = After(pipeline, "logistics")
    /\ UNCHANGED << groq_client, context, last, components_db,
                    risk_assessments, pipeline, agent_status >>

\* Complete Pipeline, the end (dashboard.py 926-934): the session's context
\* becomes the run's shared_context and every status becomes Completed
CompleteSummary ==
    /\ pipeline = "complete" /\ pc = "summary"
    /\ context' = shared_context
    /\ agent_status' = [a \in DOMAIN agent_status |-> "Completed"]
    /\ pc' = "done"
    /\ UNCHANGED << groq_client, last, components_db, risk_assessments,
                    pipeline, shared_context, locals, order >>

\* Full Orchestration, step 1 (dashboard.py 226-262).  The step ends in
\* update_agent_status (158-163), whose st.rerun() halts the script run:
\* Streamlit raises its rerun exception, a BaseException that the step's
\* `except Exception` does not catch, and starts the script again with the
\* button released.  Steps 2 to 4 (264-354) are never reached.
RunAllForecast ==
    /\ pipeline = "run_all" /\ pc = "forecast"
    /\ \E b \in PipelineTextBackend :
          LET r == generate_demand_forecast(groq_client, shared_context,
                                            Literals(8), b)
          IN  /\ ~r.raised
              /\ shared_context' = DictSet(shared_context, "demand_forecast",
                                           r.result)
              /\ context' = DictSet(context, "demand_forecast", r.result)
              /\ locals' = DictSet(locals, "forecast_report", r.result)
    /\ agent_status' = [agent_status EXCEPT !["demand_forecast"] = "Completed"]
    /\ order' = Append(order, "forecast")
    /\ pc' = "halted"
    /\ UNCHANGED << groq_client, last, components_db, risk_assessments,
                    pipeline >>

\* orchestrator.main, agent4_forecast_demand (orchestrator.py 12-40, 99): the
\* agent is built without a context and holds an empty dict of its own
MainForecast ==
    /\ pipeline = "main" /\ pc = "forecast"
    /\ \E b \in PipelineTextBackend :
          LET r == generate_demand_forecast(groq_client, EmptyDict,
                                            Literals(8), b)
          IN  /\ ~r.raised
              /\ locals' = DictSet(locals, "demand", r.result)
    /\ order' = Append(order, "forecast")
    /\ pc' = After(pipeline, "forecast")
    /\ UNCHANGED << groq_client, context, last, components_db,
                    risk_assessments, pipeline, shared_context, agent_status >>

\* the components list of orchestrator.py 46-50, by part number
MainComponents ==
    [pn \in {LM741, LM358, OP07} |->
        [part_number |-> pn,
         lead_time |-> IF pn = LM741 THEN 14 ELSE IF pn = LM358 THEN 10 ELSE 21,
         available_qty |->
             IF pn = LM741 THEN 1200 ELSE IF pn = LM358 THEN 900 ELSE 500]]

\* the stock_levels of orchestrator.py 51
MainStockLevels ==
    [pn \in {LM741, LM358, OP07} |->
        IF pn = LM741 THEN 300 ELSE IF pn = LM358 THEN 150 ELSE 80]

\* orchestrator.main, agent2_schedule_production (orchestrator.py 43-56, 100):
\* the demand forecast it is passed is not read
MainScheduling ==
    /\ pipeline = "main" /\ pc = "scheduling"
    /\ \E b \in PipelineTextBackend :
          LET r == generate_production_plan(groq_client, EmptyDict,
                                            Literals(3), b)
          IN  /\ ~r.raised
              /\ locals' = DictSet(DictSet(DictSet(locals,
                               "components", MainComponents),
                               "stock_levels", MainStockLevels),
                               "production", r.result)
    /\ order' = Append(order, "scheduling")
    /\ pc' = After(pipeline, "scheduling")
    /\ UNCHANGED << groq_client, context, last, components_db,
                    risk_assessments, pipeline, shared_context, agent_status >>

RECURSIVE MainSourceLoop(_, _, _, _, _, _)
\* the loop of orchestrator.py 64-67 over part_numbers from index i on, on a
\* new ElectronicComponentAgent: the (part number, stock, risk score)
\* entries that are joined into the delivery plan
MainSourceLoop(client, part_numbers, bs, i, db, ra) ==
    IF i > Len(part_numbers) THEN << >>
    ELSE LET s == source_component(client, db, ra, part_numbers[i], bs[i])
         IN  (IF s.component.kind = "dict"
              THEN << [part_number |-> part_numbers[i],
                       stock |-> s.component.d.stock,
                       risk_score |-> s.component.d.risk_score] >>
              ELSE << >>)
             \o MainSourceLoop(client, part_numbers, bs, i + 1, s.db, s.ra)

\* orchestrator.main, agent1_source_components (orchestrator.py 59-71, 101)
MainSourcing ==
    /\ pipeline = "main" /\ pc = "sourcing"
    /\ \E bs \in [1..3 -> PipelineRiskBackend] :
          locals' = DictSet(locals, "sourcing",
                        MainSourceLoop(groq_client, << LM741, LM358, OP07 >>,
                                       bs, 1, EmptyDict, EmptyDict))
    /\ order' = Append(order, "sourcing")
    /\ pc' = After(pipeline, "sourcing")
    /\ UNCHANGED << groq_client, context, last, components_db,
                    risk_assessments, pipeline, shared_context, agent_status >>

\* orchestrator.main, agent3_manage_logistics (orchestrator.py 74-94, 102)
MainLogistics ==
    /\ pipeline = "main" /\ pc = "logistics"
    /\ \E b \in PipelineTextBackend :
          LET r == generate_logistics_plan(groq_client, EmptyDict,
                                           Literals(3), b)
          IN  /\ ~r.raised
              /\ locals' = DictSet(locals, "logistics", r.result)
    /\ order' = Append(order, "logistics")
    /\ pc' = After(pipeline, "logistics")
    /\ UNCHANGED << groq_client, context, last, components_db,
                    risk_assessments, pipeline, shared_context, agent_status >>

\* the state of the dashboard session or the process before a run: the
\* environment decides whether a client exists; the session's context is empty
InitPipeline ==
    /\ groq_client \in BOOLEAN
    /\ context = EmptyDict
    /\ last = NoCall
    /\ components_db = EmptyDict
    /\ risk_assessments = EmptyDict
    /\ pipeline = "none"
    /\ pc = "idle"
    /\ shared_context = EmptyDict
    /\ locals = EmptyDict
    /\ agent_status = NotRunStatus
    /\ order = << >>

NextPipeline ==
    \/ StartCompletePipeline
    \/ StartRunAll
    \/ StartMain
    \/ CompleteForecast
    \/ CompleteSourcing
    \/ CompleteScheduling
    \/ CompleteLogistics
    \/ CompleteSummary
    \/ RunAllForecast
    \/ MainForecast
    \/ MainScheduling
    \/ MainSourcing
    \/ MainLogistics

\* the pipeline runs
SpecPipeline == InitPipeline /\ [][NextPipeline]_vars

\* a statement of a script that is running: the interpreter executes the
\* statement after the one that has returned, until the script ends or is
\* halted; nothing makes a user press a button
RunStep ==
    \/ CompleteForecast
    \/ CompleteSourcing
    \/ CompleteScheduling
    \/ CompleteLogistics
    \/ CompleteSummary
    \/ RunAllForecast
    \/ MainForecast
    \/ MainScheduling
    \/ MainSourcing
    \/ MainLogistics

\* the pipeline runs, none of which stops between two statements
SpecPipelineFair == SpecPipeline /\ WF_vars(RunStep)

(***************************************************************************)
(* Direct calls on one ElectronicComponentAgent, whose stores components_db *)
(* and risk_assessments live as long as the agent.                         *)
(***************************************************************************)
\* agent.source_component(part_number)
CallSourceComponent ==
    /\ last = NoCall
    /\ \E pn \in SourcedPartNumbers, b \in PipelineRiskBackend :
         \E s \in {source_component(groq_client, components_db,
                                    risk_assessments, pn, b)} :
            /\ components_db' = s.db
            /\ risk_assessments' = s.ra
            /\ last' = [op |-> "source_component", part_number |-> pn,
                        backend |-> b, raised |-> FALSE,
                        result |-> s.component,
                        backend_calls |-> s.backend_calls]
    /\ UNCHANGED << groq_client, context, pipeline, pc, shared_context,
                    locals, agent_status, order >>

\* agent.get_risk_report(part_number)
CallGetRiskReport ==
    /\ last = NoCall
    /\ \E pn \in SourcedPartNumbers :
          last' = [op |-> "get_risk_report", part_number |-> pn,
                   raised |-> FALSE,
                   result |-> get_risk_report(components_db, risk_assessments,
                                              pn)]
    /\ UNCHANGED << groq_client, context, components_db, risk_assessments,
                    pipeline, pc, shared_context, locals, agent_status, order >>

NextComponent ==
    \/ CallSourceComponent
    \/ CallGetRiskReport
    \/ Consume

\* one ElectronicComponentAgent, with its stores, under direct calls
SpecComponent == InitAgents /\ [][NextComponent]_vars

(***************************************************************************)
(* Direct calls of source_requirements on one ComponentSourcingAgent: its  *)
(* context and the stores of its component agent live across the calls.    *)
(***************************************************************************)
\* requirements that pass the checks of line 431
ValidRequirements ==
    { ItemDict(PyStr(LM741), PyInt(100)),
      ItemDict(PyStr(LM741), PyInt(50)),
      ItemDict(PyStr(INVALID123), PyInt(5)) }

\* the requirement lists a caller passes: every list of valid requirements
\* up to MaxItems, and lists with an element the loop skips or fails on
RequirementLists ==
    SeqsUpTo(ValidRequirements, MaxItems)
    \cup { << ItemDict(PyStr(LM741), PyInt(0)),
              ItemDict(PyStr(INVALID123), PyInt(5)) >>,
           << ItemDict(PyStr(LM741), PyInt(100)),
              ItemDict(PyStr(LM741), PyInt(0)) >>,
           << ItemDict(PyNone, PyInt(5)),
              ItemDict(PyStr(LM741), PyStr(<< "4", "0" >>)) >>,
           << ItemDict(PyStr(<< >>), PyInt(5)) >>,
           << ItemDict(PyStr(LM741), Absent) >>,
           << PyStr(LM741), ItemDict(PyStr(LM741), PyInt(100)) >>,
           << ItemDict(PyStr(LM741), PyInt(100)),
              ItemDict(PyStr(INVALID123), PyStr(<< "a" >>)) >>,
           << ItemDict(PyStr(INVALID123), PyNone),
              ItemDict(PyStr(LM741), PyInt(100)) >> }

\* sourcing_agent.source_requirements(requirements)
CallSourceRequirements ==
    /\ last = NoCall
    /\ \E requirements \in RequirementLists :
         \E bs \in [1..Len(requirements) -> PipelineRiskBackend] :
           \E s \in {source_requirements(groq_client, context, components_db,
                                         risk_assessments, requirements, bs)} :
              /\ context' = s.context
              /\ components_db' = s.db
              /\ risk_assessments' = s.ra
              /\ last' = [op |-> "source_requirements",
                          requirements |-> requirements, backend |-> bs,
                          context_before |-> context,
                          raised |-> s.raised,
                          result |-> IF s.raised THEN EmptyDict ELSE s.results,
                          backend_calls |-> s.backend_calls,
                          repeated |-> FALSE]
    /\ UNCHANGED << groq_client, pipeline, pc, shared_context, locals,
                    agent_status, order >>

\* the caller passes the requirement list of the call that has just returned
\* to the same agent once more, and the backend answers each requirement as
\* it did in that call
CallSourceRequirementsAgain ==
    /\ last # NoCall
    /\ last.op = "source_requirements"
    /\ ~last.raised
    /\ \E s \in {source_requirements(groq_client, context, components_db,
                                     risk_assessments, last.requirements,
                                     last.backend)} :
          /\ context' = s.context
          /\ components_db' = s.db
          /\ risk_assessments' = s.ra
          /\ last' = [op |-> "source_requirements",
                      requirements |-> last.requirements,
                      backend |-> last.backend,
                      context_before |-> context,
                      raised |-> s.raised,
                      result |-> IF s.raised THEN EmptyDict ELSE s.results,
                      backend_calls |-> s.backend_calls,
                      repeated |-> TRUE,
                      first_result |-> last.result,
                      db_before |-> components_db,
                      ra_before |-> risk_assessments]
    /\ UNCHANGED << groq_client, pipeline, pc, shared_context, locals,
                    agent_status, order >>

NextSourcing ==
    \/ CallSourceRequirements
    \/ CallSourceRequirementsAgain
    \/ Consume

\* one ComponentSourcingAgent under direct calls
SpecSourcing == InitAgents /\ [][NextSourcing]_vars

TextOps ==
    {"generate_demand_forecast", "generate_production_plan",
     "generate_logistics_plan"}

\* the offline constant of the stage a text operation belongs to
OfflineConstant(op) ==
    CASE op = "generate_demand_forecast" -> offline_forecast
      [] op = "generate_production_plan" -> offline_plan
      [] op = "generate_logistics_plan" -> offline_logistics

\* C1: a text stage call that returns while the client is absent, or after
\* the backend call raised (create() raising, or a response without text),
\* returns exactly the offline constant of its stage.
C1_FallbackIsOfflineConstant ==
    (/\ last.op \in TextOps
     /\ ~last.raised
     /\ (~groq_client \/ (last.backend_calls = 1 /\ last.backend.kind # "text")))
    => last.result = OfflineConstant(last.op)

\* C1 witness: the backend was called, raised, and the call returned
C1_Witness ==
    /\ last.op = "generate_logistics_plan"
    /\ groq_client
    /\ last.backend_calls = 1
    /\ last.backend.kind = "raise"
    /\ ~last.raised
    /\ last.result = offline_logistics

\* some text stage or extraction call has been made
PipelineOps == TextOps \cup {"extract_requirements_from_forecast"}

\* C4: with the offline flag set in the context, no operation calls the
\* generation backend, whether or not a client is configured.
C4_OfflineFlagSkipsBackend ==
    (Offline(context) /\ last.op \in PipelineOps /\ ~last.raised)
    => last.backend_calls = 0

\* r is s without its leading and trailing whitespace
IsTrimOf(r, s) ==
    \E i \in 0..Len(s) : \E j \in i..Len(s) :
        /\ r = SubSeq(s, i + 1, j)
        /\ \A k \in 1..i : s[k] \in Whitespace
        /\ \A k \in (j + 1)..Len(s) : s[k] \in Whitespace
        /\ r # << >> => (r[1] \notin Whitespace /\ r[Len(r)] \notin Whitespace)

\* C5: with a client, no offline flag and a backend call that returns text,
\* a text stage returns that text trimmed of surrounding whitespace, by the
\* return of the backend text and not by the offline fallback.
C5_SuccessReturnsTrimmedText ==
    (/\ last.op \in TextOps
     /\ groq_client
     /\ ~Offline(context)
     /\ ~last.raised
     /\ last.backend.kind = "text")
    => (/\ last.backend_calls = 1
        /\ IsTrimOf(last.result, last.backend.content)
        /\ ~last.fallback)

\* C5 witness: a backend text with whitespace on both sides came back trimmed
C5_Witness ==
    /\ last.op = "generate_production_plan"
    /\ groq_client
    /\ ~Offline(context)
    /\ last.backend = Returns(<< " ", "a", "\n" >>)
    /\ last.result = << "a" >>

\* C6 as stated: a text stage call returns an output for every input and
\* every backend situation; it never raises.
C6_NeverRaises == last.op \in TextOps => ~last.raised

\* C6 as amended: a text stage call whose arguments json.dumps can serialize
\* returns an output in every backend situation.
C6_SerializableInputsNeverRaise ==
    (last.op \in TextOps /\ \A i \in DOMAIN last.args : last.args[i] = "json")
    => ~last.raised

\* C6 witness: serializable arguments, the backend raised, the call returned
C6_Witness ==
    /\ last.op = "generate_demand_forecast"
    /\ \A i \in DOMAIN last.args : last.args[i] = "json"
    /\ groq_client
    /\ ~Offline(context)
    /\ last.backend = Raises
    /\ last.backend_calls = 1
    /\ ~last.raised

\* the text a heuristic call scanned
ScannedText ==
    IF last.forecast_report.kind = "str" THEN last.forecast_report.s ELSE << >>

\* t occurs in s, character by character
OccursIn(t, s) ==
    \E i \in 1..Len(s) :
        \A k \in 1..Len(t) : i + k - 1 <= Len(s) /\ s[i + k - 1] = t[k]

HeuristicCall == last.op = "extract_requirements_from_forecast" /\ ~groq_client

\* C7: in heuristic mode the result holds exactly one record for each of
\* LM741, LM358, OP07 that occurs in the text and none for the others, with
\* quantity 100, 80, 60 respectively; no text gives the empty list.
C7_HeuristicExtraction ==
    HeuristicCall =>
        /\ \A t \in {LM741, LM358, OP07} :
              Cardinality({i \in 1..Len(last.result) :
                              last.result[i].part_number = t})
                  = IF OccursIn(t, ScannedText) THEN 1 ELSE 0
        /\ \A i \in 1..Len(last.result) :
              \/ last.result[i] = [part_number |-> LM741, quantity |-> 100]
              \/ last.result[i] = [part_number |-> LM358, quantity |-> 80]
              \/ last.result[i] = [part_number |-> OP07, quantity |-> 60]
        /\ ScannedText = << >> => last.result = << >>

\* C7 witness: the text gives LM358 with the number 120, the record says 80
C7_Witness ==
    /\ HeuristicCall
    /\ last.forecast_report = PyStr(LM358 \o << "1", "2", "0" >>)
    /\ last.result = << [part_number |-> LM358, quantity |-> 80] >>

\* the first position of t in s
FirstOccurrence(t, s) ==
    CHOOSE i \in Occurrences(t, s) : \A k \in Occurrences(t, s) : i <= k

\* C8 as stated: in heuristic mode the records are in the order in which
\* their identifiers first occur in the forecast text.
C8_OrderOfFirstOccurrence ==
    HeuristicCall =>
        \A i, j \in 1..Len(last.result) :
            i < j => FirstOccurrence(last.result[i].part_number, ScannedText)
                         < FirstOccurrence(last.result[j].part_number, ScannedText)

\* the place of an identifier in the scan LM741, LM358, OP07
ScanRank(pn) == IF pn = LM741 THEN 1 ELSE IF pn = LM358 THEN 2 ELSE 3

\* C8 as amended: in heuristic mode the records are in the order of the
\* vocabulary scan, LM741 before LM358 before OP07, wherever the
\* identifiers stand in the text.
C8_VocabularyScanOrder ==
    HeuristicCall =>
        \A i, j \in 1..Len(last.result) :
            i < j => ScanRank(last.result[i].part_number)
                         < ScanRank(last.result[j].part_number)

\* C8 witness: OP07 stands before LM741 in the text and after it in the result
C8_Witness ==
    /\ HeuristicCall
    /\ last.forecast_report = PyStr(OP07 \o LM741)
    /\ last.result = << [part_number |-> LM741, quantity |-> 100],
                        [part_number |-> OP07, quantity |-> 60] >>

ExtractCall == last.op = "extract_requirements_from_forecast"

\* C9: every record extract_requirements_from_forecast returns, in either
\* mode, has a non-empty identifier without surrounding whitespace and an
\* integer quantity above zero; a response whose only element has quantity
\* 0 gives the empty list.
C9_RecordsAreValid ==
    ExtractCall =>
        /\ \A i \in 1..Len(last.result) :
              LET pn == last.result[i].part_number
              IN  /\ pn # << >>
                  /\ pn[1] \notin Whitespace
                  /\ pn[Len(pn)] \notin Whitespace
                  /\ last.result[i].quantity \in Nat \ {0}
        /\ (/\ groq_client
            /\ \E q \in {PyInt(0), PyStr(<< "0" >>)} :
                  last.backend = RequirementsResponse(
                                     << ItemDict(PyStr(LM358), q) >>))
           => last.result = << >>

\* C9 witness: of a padded identifier with quantity 80 and an identifier
\* with quantity 0, the first is returned trimmed and the second dropped
C9_Witness ==
    /\ ExtractCall
    /\ groq_client
    /\ last.backend = RequirementsResponse(
           << ItemDict(PyStr(<< " " >> \o OP07 \o << " " >>), PyInt(80)),
              ItemDict(PyStr(LM358), PyInt(0)) >>)
    /\ last.result = << [part_number |-> OP07, quantity |-> 80] >>

\* an element that passes validation on any reading: an object with a
\* non-blank str identifier and a positive integer or ASCII digit string
ClearlyValid(e) ==
    /\ e.kind = "dict"
    /\ DOMAIN e.d = {"part_number", "quantity"}
    /\ e.d["part_number"].kind = "str"
    /\ \E k \in 1..Len(e.d["part_number"].s) :
          e.d["part_number"].s[k] \notin Whitespace
    /\ \/ e.d["quantity"].kind = "int" /\ e.d["quantity"].n > 0
       \/ /\ e.d["quantity"].kind = "str"
          /\ e.d["quantity"].s # << >>
          /\ \A k \in 1..Len(e.d["quantity"].s) :
                \E d \in 1..10 : AsciiDigits[d] = e.d["quantity"].s[k]
          /\ \E k \in 1..Len(e.d["quantity"].s) : e.d["quantity"].s[k] # "0"

\* C10: online normalization drops the failing elements one by one; every
\* valid element of the backend's list is returned, whatever the other
\* elements of the list are.
C10_ValidElementsSurvive ==
    (/\ ExtractCall
     /\ groq_client
     /\ last.backend.kind = "text"
     /\ Len(last.backend.content) = 3
     /\ last.backend.content[2].t = "members"
     /\ "requirements" \in DOMAIN last.backend.content[2].d
     /\ last.backend.content[2].d["requirements"].kind = "list")
    => LET items == last.backend.content[2].d["requirements"].items
       IN  \A i \in 1..Len(items) :
               ClearlyValid(items[i]) =>
                   \E j \in 1..Len(last.result) :
                       IsTrimOf(last.result[j].part_number,
                                items[i].d["part_number"].s)

\* the keys a finished run is said to leave in the Shared Context
StageKeys ==
    {"demand_forecast", "sourcing_results", "production_schedule",
     "logistics_plan"}

\* C2: a Complete Pipeline run without a backend ends with a Shared Context
\* whose keys are exactly demand_forecast, sourcing_results,
\* production_schedule and logistics_plan, each value non-empty, and
\* sourcing_results keyed by exactly LM741, LM358 and OP07.
C2_OfflineRunContext ==
    (pipeline = "complete" /\ pc = "done" /\ ~groq_client)
    => /\ DOMAIN shared_context = StageKeys
       /\ shared_context["demand_forecast"] # << >>
       /\ shared_context["production_schedule"] # << >>
       /\ shared_context["logistics_plan"] # << >>
       /\ DOMAIN shared_context["sourcing_results"] = {LM741, LM358, OP07}

IsPrefix(s, r) == Len(s) <= Len(r) /\ s = SubSeq(r, 1, Len(s))

\* the local variable that holds a stage's output in each script
OutputOf(p, stage) ==
    IF p = "main"
    THEN CASE stage = "forecast" -> "demand"
           [] stage = "scheduling" -> "production"
           [] stage = "sourcing" -> "sourcing"
           [] stage = "logistics" -> "logistics"
    ELSE CASE stage = "forecast" -> "forecast_report"
           [] stage = "sourcing" -> "sourcing_results"
           [] stage = "scheduling" -> "production_plan"
           [] stage = "logistics" -> "logistics_plan"

\* the stages of a run are executed in the order `sequence`, each complete
\* (its output bound) before the next, none begun before the one before it
RunsInOrder(sequence) ==
    /\ IsPrefix(order, sequence)
    /\ \A i \in 1..Len(order) : OutputOf(pipeline, order[i]) \in DOMAIN locals
    /\ \A i \in 1..Len(sequence) :
          pc = sequence[i] => order = SubSeq(sequence, 1, i - 1)

C11_FailedCallEqualsHeuristic ==
    (ExtractCall /\ groq_client /\ last.backend.kind # "text") =>
        \A t \in {LM741, LM358, OP07} :
            OccursIn(t, ScannedText) =>
                \E i \in 1..Len(last.result) : last.result[i].part_number = t

\* the text is one JSON document
JsonDocument(c) ==
    \/ c = << LBrace, RBrace >>
    \/ c = << ArrayText >>
    \/ Len(c) = 3 /\ c[1] = LBrace /\ c[2].t = "members" /\ c[3] = RBrace

\* the positions of the braces in the text
OpenBraces(c) == {i \in 1..Len(c) : c[i] = LBrace}
CloseBraces(c) == {i \in 1..Len(c) : c[i] = RBrace}

\* neither the text nor the stretch from its first opening brace to its last
\* closing brace is a JSON document
NoJsonIn(c) ==
    /\ ~JsonDocument(c)
    /\ \A i \in OpenBraces(c), j \in CloseBraces(c) :
          ( /\ \A k \in OpenBraces(c) : i <= k
            /\ \A k \in CloseBraces(c) : k <= j
            /\ i < j )
          => ~JsonDocument(SubSeq(c, i, j))

StructuredCall ==
    /\ last.op \in {"assess_risks", "optimize_sourcing",
                    "extract_requirements_from_forecast"}
    /\ groq_client
    /\ last.backend.kind = "text"

\* C13: when neither the backend text nor its brace span parses as JSON, no
\* error escapes: _assess_risks returns the fixed default (factors 'Supply
\* chain risk' and 'Price volatility', score 5.0, mitigations 'Diversify
\* suppliers' and 'Monitor prices', rating 6.0), optimize_sourcing its fixed
\* default structure, extract_requirements_from_forecast the empty list.
C13_UnparsableGivesDefault ==
    (StructuredCall /\ NoJsonIn(last.backend.content)) =>
        /\ ~last.raised
        /\ last.op = "assess_risks" =>
              last.result =
                  [component_id |-> last.part_number,
                   risk_factors |-> PyList(<< PyStr(<< "Supply chain risk" >>),
                                              PyStr(<< "Price volatility" >>) >>),
                   risk_score |-> 50,
                   mitigation_strategies |->
                       PyList(<< PyStr(<< "Diversify suppliers" >>),
                                 PyStr(<< "Monitor prices" >>) >>),
                   supplier_rating |-> 60]
        /\ last.op = "optimize_sourcing" =>
              /\ last.result.kind = "dict"
              /\ DOMAIN last.result.d =
                     {"recommended_suppliers", "cost_optimization",
                      "risk_mitigation", "timeline"}
              /\ last.result.d["recommended_suppliers"] =
                     PyList(<< PyStr(<< "Digi-Key" >>), PyStr(<< "Mouser" >>),
                               PyStr(<< "Arrow" >>) >>)
              /\ last.result.d["cost_optimization"] =
                     PyList(<< PyStr(<< "Bulk purchasing" >>),
                               PyStr(<< "Volume discounts" >>) >>)
              /\ last.result.d["risk_mitigation"] =
                     PyList(<< PyStr(<< "Multiple suppliers" >>),
                               PyStr(<< "Safety stock" >>) >>)
              /\ last.result.d["timeline"] = PyStr(<< "4-6 weeks" >>)
        /\ last.op = "extract_requirements_from_forecast" =>
              last.result = << >>

\* C13 witness: the risk response has a brace span that is no JSON, and the
\* assessment is the default one
C13_Witness ==
    /\ StructuredCall
    /\ last.op = "assess_risks"
    /\ last.backend.content = << LBrace, Prose, RBrace >>
    /\ last.result.supplier_rating = 60

\* C19: source_component on a part number without a catalogue record
\* (INVALID123, the empty identifier) returns no component and stores
\* nothing for it in components_db or risk_assessments.
C19_InvalidPartNumberYieldsNothing ==
    (last.op = "source_component" /\ last.part_number \in {INVALID123, << >>})
    => /\ last.result = PyNone
       /\ last.part_number \notin DOMAIN components_db
       /\ last.part_number \notin DOMAIN risk_assessments

\* C20: after any sequence of source_component calls the two stores have the
\* same keys; under each key the component's part_number and the
\* assessment's component_id are the key and their risk scores are equal;
\* get_risk_report(pn) returns a report for pn exactly when pn is a key, and
\* None otherwise.
C20_StoresAgree ==
    /\ DOMAIN components_db = DOMAIN risk_assessments
    /\ \A pn \in DOMAIN components_db :
          /\ components_db[pn].part_number = pn
          /\ risk_assessments[pn].component_id = pn
          /\ components_db[pn].risk_score = risk_assessments[pn].risk_score
    /\ last.op = "get_risk_report" =>
          IF last.part_number \in DOMAIN components_db
          THEN /\ last.result.kind = "dict"
               /\ last.result.d.part_number = last.part_number
          ELSE last.result = PyNone

\* C20 witness: two part numbers were sourced with different risk scores,
\* and a report was asked for and returned
C20_Witness ==
    /\ DOMAIN components_db = {LM741, INVALID123}
    /\ components_db[LM741].risk_score = 70
    /\ components_db[INVALID123].risk_score = 50
    /\ last.op = "get_risk_report"
    /\ last.part_number = LM741
    /\ last.result.kind = "dict"

\* the positions at which a JSON object with members stands in the text
ObjectsIn(c) ==
    {i \in 1..Len(c) : /\ i + 2 <= Len(c)
                       /\ c[i] = LBrace
                       /\ c[i + 1].t = "members"
                       /\ c[i + 2] = RBrace}

\* the positions at which the empty JSON object stands in the text
EmptyObjectsIn(c) ==
    {i \in 1..Len(c) : i + 1 <= Len(c) /\ c[i] = LBrace /\ c[i + 1] = RBrace}

\* the text is no JSON document and holds exactly one JSON object
OneObjectInText(c) ==
    /\ ~JsonDocument(c)
    /\ Cardinality(ObjectsIn(c)) = 1
    /\ EmptyObjectsIn(c) = {}

\* the fields of that object
TheObject(c) == c[(CHOOSE i \in ObjectsIn(c) : TRUE) + 1].d

\* ... and everything around the object is prose without braces
OneObjectInProse(c) ==
    /\ OneObjectInText(c)
    /\ \A k \in 1..Len(c) :
          LET i == CHOOSE x \in ObjectsIn(c) : TRUE
          IN  k \notin {i, i + 1, i + 2} => c[k] = Prose

Numeric(v) == v.kind \in {"int", "float"}

\* the object has the fields of a risk assessment, the numeric ones numbers
RiskObject(d) ==
    /\ {"risk_factors", "risk_score"} \subseteq DOMAIN d
    /\ Numeric(d["risk_score"])
    /\ "supplier_rating" \in DOMAIN d => Numeric(d["supplier_rating"])

\* a number in tenths
Tenths(v) == IF v.kind = "int" THEN 10 * v.n ELSE v.n

\* the result of the call is built from the fields of the object d
BuiltFrom(d) ==
    /\ last.op = "assess_risks" =>
          (RiskObject(d) =>
              /\ last.result.risk_factors = d["risk_factors"]
              /\ last.result.risk_score = Tenths(d["risk_score"]))
    /\ last.op = "optimize_sourcing" => last.result = PyDict(d)
    /\ last.op = "extract_requirements_from_forecast" =>
          last.result = ExtractOnline(<< LBrace, Members(d), RBrace >>)

SourcingCall == last.op = "source_requirements"

\* the identifier and the quantity a requirement is sourced with, for a
\* requirement that has both
RequirementId(req) == req.d["part_number"].s

RequirementQuantity(req) ==
    IF req.d["quantity"].kind = "int" THEN req.d["quantity"].n
    ELSE IF req.d["quantity"].s = << "4", "0" >> THEN 40 ELSE 0

\* a requirement with a non-empty identifier and a quantity above zero
ValidRequirement(req) ==
    /\ req.kind = "dict"
    /\ {"part_number", "quantity"} \subseteq DOMAIN req.d
    /\ req.d["part_number"].kind = "str"
    /\ req.d["part_number"].s # << >>
    /\ \/ req.d["quantity"].kind = "int"
       \/ req.d["quantity"].kind = "str" /\ req.d["quantity"].s = << "4", "0" >>
    /\ RequirementQuantity(req) > 0

\* the positions of the valid requirements for pn in the list of the call
ValidFor(pn) ==
    {i \in 1..Len(last.requirements) :
        /\ ValidRequirement(last.requirements[i])
        /\ RequirementId(last.requirements[i]) = pn}

\* the last of them
LastValidFor(pn) == CHOOSE i \in ValidFor(pn) : \A k \in ValidFor(pn) : k <= i

\* C14: for several requirements with the same identifier the result has
\* one entry under it, with the requested quantity of the last valid
\* requirement for it in input order; the quantities are not summed.
C14_LastRequirementWins ==
    (SourcingCall /\ ~last.raised) =>
        \A pn \in DOMAIN last.result :
            /\ ValidFor(pn) # {}
            /\ last.result[pn].requested_quantity =
                   RequirementQuantity(last.requirements[LastValidFor(pn)])

\* C14 witness: LM741 was required with 100, then with 50; the entry says 50
C14_Witness ==
    /\ SourcingCall
    /\ ~last.raised
    /\ Len(last.requirements) = 2
    /\ last.requirements[1] = ItemDict(PyStr(LM741), PyInt(100))
    /\ last.requirements[2] = ItemDict(PyStr(LM741), PyInt(50))
    /\ DOMAIN last.result = {LM741}
    /\ last.result[LM741].requested_quantity = 50

\* C15: failures are isolated per identifier: when the lookup fails for one
\* requirement (its identifier has no catalogue record), or its risk
\* assessment fails, its entry is still there with the requested quantity
\* and without a component, and every other valid requirement of the call
\* has an entry with a component.
C15_FailuresAreIsolated ==
    (/\ SourcingCall
     /\ \A i \in 1..Len(last.requirements) :
            ValidRequirement(last.requirements[i]))
    => \A i \in 1..Len(last.requirements) :
          LET pn == RequirementId(last.requirements[i])
          IN  /\ pn \in DOMAIN last.result
              /\ last.result[pn].requested_quantity =
                     RequirementQuantity(last.requirements[LastValidFor(pn)])
              /\ IF \/ pn = INVALID123
                    \/ groq_client /\ last.backend[LastValidFor(pn)].kind # "text"
                 THEN last.result[pn].component = PyNone
                 ELSE last.result[pn].component.kind = "dict"

\* C16: in every result of source_requirements every key is a non-empty
\* identifier with a requested quantity above zero, and a component and a
\* risk report that are both present carry the key as their identifier.
C16_EntriesAreConsistent ==
    (SourcingCall /\ ~last.raised) =>
        \A pn \in DOMAIN last.result :
            /\ pn # << >>
            /\ last.result[pn].requested_quantity > 0
            /\ (/\ last.result[pn].component.kind = "dict"
                /\ last.result[pn].risk_report.kind = "dict")
               => /\ last.result[pn].component.d.part_number = pn
                  /\ last.result[pn].risk_report.d.part_number = pn

\* C16 witness: a requirement with quantity zero was skipped, the one after
\* it has its entry with component and risk report
C16_Witness ==
    /\ SourcingCall
    /\ ~last.raised
    /\ last.requirements = << ItemDict(PyStr(LM741), PyInt(0)),
                              ItemDict(PyStr(INVALID123), PyInt(5)) >>
    /\ DOMAIN last.result = {INVALID123}
    /\ last.result[INVALID123].component.kind = "dict"
    /\ last.result[INVALID123].risk_report.kind = "dict"

\* C17: after source_requirements returns, the context holds under
\* 'sourcing_results' exactly the returned result, whose keys are the
\* identifiers of the valid requirements of this call; nothing of an earlier
\* call survives, also for the empty requirement list.
C17_ResultIsPublished ==
    (SourcingCall /\ ~last.raised) =>
        /\ "sourcing_results" \in DOMAIN context
        /\ context["sourcing_results"] = last.result
        /\ DOMAIN last.result =
               {RequirementId(last.requirements[i]) :
                   i \in {k \in 1..Len(last.requirements) :
                             ValidRequirement(last.requirements[k])}}
        /\ \A k \in DOMAIN context : k # "sourcing_results" =>
               k \in DOMAIN last.context_before
               /\ context[k] = last.context_before[k]

\* C17 witness: the context held a result for INVALID123 and LM741, and
\* after a call with the empty list it holds the empty result
C17_Witness ==
    /\ SourcingCall
    /\ ~last.raised
    /\ last.requirements = << >>
    /\ "sourcing_results" \in DOMAIN last.context_before
    /\ DOMAIN last.context_before["sourcing_results"] = {LM741, INVALID123}
    /\ context["sourcing_results"] = EmptyDict

\* C18: every pipeline run that begins eventually completes its four
\* stages, whatever the backend does.
C18_RunCompletes ==
    \A p \in {"complete", "run_all", "main"} :
        (pipeline = p /\ pc = "forecast") ~> (pipeline = p /\ Len(order) = 4)

\* the text is one JSON object, and its fields
ObjectText(c) ==
    \/ c = << LBrace, RBrace >>
    \/ Len(c) = 3 /\ c[1] = LBrace /\ c[2].t = "members" /\ c[3] = RBrace

FieldsOf(c) == IF c = << LBrace, RBrace >> THEN EmptyDict ELSE c[2].d

\* the fields the prompt of the operation asks for
RequiredFields(op) ==
    IF op = "assess_risks"
    THEN {"risk_factors", "risk_score", "mitigation_strategies", "supplier_rating"}
    ELSE {"recommended_suppliers", "cost_optimization", "risk_mitigation",
          "timeline"}

\* C21: when the backend text is a JSON object that lacks a required field
\* (the empty object, for one), _assess_risks returns the assessment it
\* returns on a parse failure (default factors and mitigations, score 5.0,
\* rating 6.0) and optimize_sourcing returns its default structure with all
\* four keys.
C21_MissingFieldsGiveDefault ==
    (/\ StructuredCall
     /\ last.op \in {"assess_risks", "optimize_sourcing"}
     /\ ObjectText(last.backend.content)
     /\ ~(RequiredFields(last.op) \subseteq DOMAIN FieldsOf(last.backend.content)))
    => /\ last.op = "assess_risks" =>
             /\ last.result.risk_factors =
                    PyList(<< PyStr(<< "Supply chain risk" >>),
                              PyStr(<< "Price volatility" >>) >>)
             /\ last.result.risk_score = 50
             /\ last.result.mitigation_strategies =
                    PyList(<< PyStr(<< "Diversify suppliers" >>),
                              PyStr(<< "Monitor prices" >>) >>)
             /\ last.result.supplier_rating = 60
       /\ last.op = "optimize_sourcing" =>
             /\ last.result.kind = "dict"
             /\ DOMAIN last.result.d = RequiredFields("optimize_sourcing")

\* a list field of the object d after coercion: the list, or the empty list
\* when it is missing or no list
CoercedList(d, key) ==
    IF key \in DOMAIN d /\ d[key].kind = "list" THEN d[key] ELSE PyList(<< >>)

\* a numeric field of the object d after coercion, in tenths: the number, or
\* the default 5.0 when it is missing or no number
CoercedNumber(d, key) ==
    IF key \in DOMAIN d /\ Numeric(d[key]) THEN Tenths(d[key]) ELSE 50

\* C22: the risk-assessment parser coerces each field by itself: a list field
\* that is missing or no list becomes the empty list, a numeric field that is
\* missing or no number becomes 5.0, and the well-formed fields of the same
\* response are kept.
C22_PerFieldCoercion ==
    (/\ StructuredCall
     /\ last.op = "assess_risks"
     /\ ObjectText(last.backend.content))
    => LET d == FieldsOf(last.backend.content)
       IN  /\ last.result.risk_factors = CoercedList(d, "risk_factors")
           /\ last.result.mitigation_strategies =
                  CoercedList(d, "mitigation_strategies")
           /\ last.result.risk_score = CoercedNumber(d, "risk_score")
           /\ last.result.supplier_rating = CoercedNumber(d, "supplier_rating")

\* C23: source_requirements does not raise on an invalid record: a
\* requirement whose quantity is missing, null or no number is discarded, the
\* other requirements of the list are processed (every valid one has its
\* entry), and the result is published in the context.
C23_InvalidRecordsAreDiscarded ==
    (/\ SourcingCall
     /\ \A i \in 1..Len(last.requirements) :
            last.requirements[i].kind = "dict")
    => /\ ~last.raised
       /\ \A i \in 1..Len(last.requirements) :
             ValidRequirement(last.requirements[i]) =>
                 RequirementId(last.requirements[i]) \in DOMAIN last.result
       /\ "sourcing_results" \in DOMAIN context
       /\ context["sourcing_results"] = last.result

\* the run has executed its scheduling stage
Scheduled == \E i \in 1..Len(order) : order[i] = "scheduling"

\* C24: the scheduler's inputs are derived from the sourcing_results of the
\* run: one component entry and one stock entry for every key of
\* sourcing_results and for nothing else; lead time and stock are those of
\* the sourced component when it is present, and 14 and 0 when it is absent.
C24_SchedulerInputsFromSourcing ==
    (pipeline \in {"complete", "run_all", "main"} /\ Scheduled) =>
        /\ "sourcing_results" \in DOMAIN locals
        /\ DOMAIN locals["components"] = DOMAIN locals["sourcing_results"]
        /\ DOMAIN locals["stock_levels"] = DOMAIN locals["sourcing_results"]
        /\ \A pn \in DOMAIN locals["sourcing_results"] :
              LET component == locals["sourcing_results"][pn].component
                  present == component.kind = "dict"
              IN  /\ locals["components"][pn].part_number = pn
                  /\ locals["components"][pn].lead_time =
                         IF present THEN component.d.lead_time ELSE 14
                  /\ locals["components"][pn].available_qty =
                         IF present THEN component.d.stock ELSE 0
                  /\ locals["stock_levels"][pn] =
                         IF present THEN component.d.stock ELSE 0

\* the keys a step writes: those that are new or whose value has changed
WrittenKeys ==
    {k \in DOMAIN shared_context' :
        k \notin DOMAIN shared_context \/ shared_context'[k] # shared_context[k]}

\* the key the step of a stage writes in the shared context, as the
\* dashboard names it
KeyOf(stage) ==
    CASE stage = "forecast" -> "demand_forecast"
      [] stage = "sourcing" -> "sourcing_results"
      [] stage = "scheduling" -> "production_plan"
      [] stage = "logistics" -> "logistics_plan"
      [] OTHER -> "none"

\* C25: during a pipeline run the key set of the shared context only grows:
\* a step of the run removes no key, writes at most the one key of its stage,
\* and leaves the value under every other key as it was.
C25_ContextOnlyGrows ==
    [][ ~Resting =>
          /\ DOMAIN shared_context \subseteq DOMAIN shared_context'
          /\ WrittenKeys \subseteq {KeyOf(pc)}
          /\ \A k \in DOMAIN shared_context :
                k # KeyOf(pc) => shared_context'[k] = shared_context[k] ]_vars

\* C25 witness: the Complete Pipeline has run its four stages and the shared
\* context holds the four keys, the forecast still the one of step 1
C25_Witness ==
    /\ pipeline = "complete"
    /\ Len(order) = 4
    /\ DOMAIN shared_context =
           {"demand_forecast", "sourcing_results", "production_plan",
            "logistics_plan"}
    /\ shared_context["demand_forecast"] = locals["forecast_report"]
    /\ DOMAIN shared_context["sourcing_results"] # {}

\* the text stages a dashboard run has finished, each with the status entry
\* the dashboard keeps for it, its output and its offline constant
FinishedTextStages ==
    IF pipeline = "run_all" /\ pc = "halted"
    THEN { [status |-> agent_status["demand_forecast"],
            output |-> locals["forecast_report"],
            offline |-> offline_forecast] }
    ELSE IF pipeline = "complete" /\ pc = "done"
    THEN { [status |-> agent_status["demand_forecast"],
            output |-> locals["forecast_report"],
            offline |-> offline_forecast],
           [status |-> agent_status["production_schedule"],
            output |-> locals["production_plan"],
            offline |-> offline_plan],
           [status |-> agent_status["logistics"],
            output |-> locals["logistics_plan"],
            offline |-> offline_logistics] }
    ELSE {}

\* C26: a stage invocation ends in exactly one of Completed, Degraded and
\* Failed: Completed exactly when the backend call succeeded, Degraded
\* exactly when the backend was absent, flagged offline or failed and the
\* fallback output was returned; so a degraded stage can be told from a
\* completed one by its status.
C26_StatusTellsOutcome ==
    \A s \in FinishedTextStages :
        /\ s.status \in {"Completed", "Degraded", "Failed"}
        /\ s.status = "Completed" <=> (groq_client /\ s.output # s.offline)
        /\ s.status = "Degraded" <=> (~groq_client \/ s.output = s.offline)

\* the fixed fallback of the operation of the last call
FallbackResult ==
    CASE last.op \in TextOps -> OfflineConstant(last.op)
      [] last.op = "assess_risks" -> DefaultRiskAssessment(last.part_number)
      [] last.op = "optimize_sourcing" -> PyDict(DefaultOptimization)

\* C27: no retry: one stage invocation (a generate_* call, an extraction, a
\* risk assessment, an optimize_sourcing call) calls the backend at most
\* once, and when that call fails the invocation returns after it, without
\* a second call and without raising: the text stages, the risk assessment
\* and optimize_sourcing return their fixed fallback, the extraction returns
\* a list.
C27_NoRetry ==
    last # NoCall =>
        /\ last.backend_calls <= 1
        /\ (last.backend_calls >= 1 /\ last.backend.kind # "text") =>
              /\ last.backend_calls = 1
              /\ ~last.raised
              /\ last.op # "extract_requirements_from_forecast" =>
                     last.result = FallbackResult

\* C27 witness: a forecast call whose backend call raised returned the
\* offline forecast after that one call
C27_Witness ==
    /\ last.op = "generate_demand_forecast"
    /\ last.backend = Raises
    /\ last.backend_calls = 1
    /\ last.result = offline_forecast

\* C28: every RiskAssessment that _assess_risks returns has a risk score and
\* a supplier rating between 0 and 10 (0 and 100 tenths), whatever the
\* backend responds.
C28_ScoresInRange ==
    last.op = "assess_risks" =>
        /\ 0 <= last.result.risk_score /\ last.result.risk_score <= 100
        /\ 0 <= last.result.supplier_rating /\ last.result.supplier_rating <= 100

C30_ResourcingIsIdempotent ==
    (SourcingCall /\ last.repeated) =>
        /\ ~last.raised
        /\ last.result = last.first_result
        /\ components_db = last.db_before
        /\ risk_assessments = last.ra_before
        /\ DOMAIN last.result \subseteq DOMAIN components_db
        /\ DOMAIN components_db = DOMAIN risk_assessments
        /\ context["sourcing_results"] = last.first_result

\* C30 witness: offline, LM741 and INVALID123 were sourced a second time; the
\* stores hold the two components, as after the first call
C30_Witness ==
    /\ SourcingCall
    /\ last.repeated
    /\ ~groq_client
    /\ last.requirements = << ItemDict(PyStr(LM741), PyInt(100)),
                              ItemDict(PyStr(INVALID123), PyInt(5)) >>
    /\ DOMAIN last.result = {LM741, INVALID123}
    /\ DOMAIN components_db = {LM741, INVALID123}
    /\ last.result[LM741].requested_quantity = 100

====
